---------------------------- MODULE Spec2Model ----------------------------
(***************************************************************************)
(* GripDeck SBC controller firmware: the power sequencer, the sleep        *)
(* watchdog, the BLE text command queue and the USB vendor (binary)        *)
(* request/response mailbox, as state machines translated from the         *)
(* firmware sources.                                                       *)
(*                                                                         *)
(* Time is the value of millis().  The clock advances in steps of TickMs;  *)
(* a polling loop of the code (while (cond) delay(100)) is an action that  *)
(* is enabled when the loop's exit condition holds: the iterations that    *)
(* find the condition unchanged are stuttering steps.                      *)
(***************************************************************************)
EXTENDS Integers, Sequences, FiniteSets, TLC

(***************************************************************************)
(* Program constants (include/config/Config.h, GripDeckVendorHID.h)        *)
(***************************************************************************)
BATTERY_MIN_PERCENTAGE == 5
BATTERY_SAVING_MODE == 15
USB_CONNECTION_TIMEOUT == 15000
DEEP_SLEEP_WATCHDOG_TIMEOUT_MS == 30000
DEEP_SLEEP_ACTIVITY_RESET_INTERVAL_MS == 1000
POWER_BUTTON_DEBOUNCE == 50
POWER_BUTTON_SHORT_PRESS_MIN == 50
POWER_BUTTON_SHORT_PRESS_MAX == 2000
POWER_BUTTON_LONG_PRESS_MIN == 3000
QUEUE_SIZE_COMMANDS == 10
HID_QUEUE_SIZE == 10
USB_MOUNT_HOLDOFF_MS == 5000
RAW_DATA_SIZE == 128
VENDOR_REPORT_ID == 6
VENDOR_PACKET_SIZE == 32
PROTOCOL_VERSION == 1
PROTOCOL_MAGIC == 18244
FIRMWARE_VERSION == 256
CMD_PING == 1
CMD_GET_STATUS == 2
CMD_GET_INFO == 3
CMD_RESERVED == 255
RESP_PONG == 129
RESP_STATUS == 130
RESP_INFO == 131
RESP_ERROR == 255
PARSED_DATA_COUNT == 8
PARSED_DATA_SIZE == 32
BATTERY_CAPACITY_MAH == 4500
TASK_WATCHDOG_TIMEOUT == 30
LED_BLINK_DURATION == 3000
STATUS_QUEUE_SIZE == 10

(***************************************************************************)
(* Bounds of the model                                                     *)
(***************************************************************************)
TickMs == 15000      \* the clock advances in steps of TickMs
HoldMs == 1000       \* the time the button is held for a short press
MaxTime == 45000     \* the clock stops at MaxTime
MaxPending == 1      \* text frames a client leaves unanswered before it writes again
MaxKeys == 2         \* keys left in hidQueue before the USB task runs again
MaxActive == 1       \* tasks inside trySetSBCPower at the same time
MaxChunks == 2       \* a reply is at most MaxChunks full packets and one byte long
MaxRacing == 2        \* tasks inside trySetSBCPower at the same time, where they race
MaxFailures == 1     \* failed bus reads and timed-out locks of the power task
MaxPosted == 2       \* statuses left in statusQueue before the status task runs again
BlinkMs == 1500      \* step of the clock while a temporary status is displayed
BlinkSteps == 4      \* number of such steps
MaxFields == 10      \* data fields of a frame written character by character

VARIABLES
    now,                  \* millis()
    pinSBC,               \* level of PIN_SBC_POWER_MOSFET (TRUE = HIGH)
    powerData,            \* PowerManager::powerData (the published snapshot)
    mounted,              \* tud_mounted(): the host has enumerated the device
    usbConnected,         \* USBManager::usbConnected
    initialized,          \* USBManager::initialized
    hidQueue,             \* USBManager::hidQueue
    pc,                   \* position of each task
    startTime,            \* trySetSBCPower's local startTime, per task
    call,                 \* per task: its power request in progress
    lastReturn,           \* the request that returned last (none once the next starts)
    lastActivityTime,     \* SystemManager
    lastActivityCheck,
    deepSleepEnabled,
    deepSleepRequested,
    currentTime,          \* updateDeepSleepWatchdog's local currentTime
    buttonDown,           \* digitalRead(PIN_POWER_BUTTON) == LOW
    lastButtonState,
    lastButtonTime,
    buttonPressed,
    buttonPressStartTime,
    chip,                 \* "running", "deep_sleep" or "restart"
    sleepEntry,           \* what held when enterDeepSleep() was last begun
    deviceConnected,      \* BLEManager::deviceConnected
    commandQueue,         \* BLEManager::commandQueue
    lastWrite,            \* what became of the last text frame written
    lastHandled,          \* the last text frame handled: its reply and how many
                          \* notifications carried it to the client
    vendorResponse,       \* USBManager::vendorResponse
    vendorResponseReady,  \* USBManager::vendorResponseReady
    hostOps,              \* the host's last four binary operations and their results
    notified,             \* the last reply sent: its text, the MTU, its packets
    gauge,                \* the last battery reading turned into a percentage
    snapshot,             \* the last copy of powerData handed to a reader
    boot,                 \* the queues and locks created, and the USB task's last pass
    telemetry,            \* the last result of readChannels
    cell,                 \* the battery as it is, and the failed reads and locks so far
    unsteady,             \* the tasks that saw the USB link change during a handshake wait
    blockedAt,            \* millis() of the last watchdog check that found sleep blocked, or -1
    enabledAt,            \* millis() of the last enableDeepSleep on a disabled watchdog, or -1
    wired,                \* the messages the last USB pass executed on the wired interface
    usbd,                 \* the USB device task inside sendVendorResponse: its position and the response being written
    retrieved,            \* the packet the last getVendorResponse handed out
    status,               \* StatusManager: isLowPowerMode, statusQueue, currentStatus, patternStartTime, prev*
    previousPowerSavingMode,  \* PowerManager::previousPowerSavingMode
    driver,               \* the host driver's gripdeck_data after its last update, with the fields that were encoded
    parse                 \* the last frame written as characters, and what parsing made of it

powerVars == <<pinSBC, powerData, mounted, usbConnected, initialized, hidQueue,
               pc, startTime, call, lastReturn>>
sleepVars == <<lastActivityTime, lastActivityCheck, deepSleepEnabled,
               deepSleepRequested, currentTime, chip, sleepEntry>>
buttonVars == <<buttonDown, lastButtonState, lastButtonTime, buttonPressed,
                buttonPressStartTime>>
bleVars == <<deviceConnected, commandQueue, lastWrite, lastHandled>>
vendorVars == <<vendorResponse, vendorResponseReady, hostOps>>
statusVars == <<status, previousPowerSavingMode>>
hostVars == <<driver, parse>>
lateVars == <<enabledAt, wired, usbd, retrieved, statusVars, hostVars>>
auxVars == <<boot, telemetry, cell, unsteady, blockedAt, lateVars>>
calcVars == <<notified, gauge, snapshot, auxVars>>
vars == <<now, powerVars, sleepVars, buttonVars, bleVars, vendorVars, calcVars>>


(***************************************************************************)
(* Initial state: the state after setup() has constructed the managers     *)
(* (PowerManager::begin forces the line LOW, SystemManager::begin stamps   *)
(* the activity timer, USBManager's constructor clears the mailbox).       *)
(***************************************************************************)
Tasks == {"main", "ble", "system", "power"}

ZeroSequence == <<0, 0, 0, 0>>
ZeroPayload == [kind |-> "zero"]
ZeroPacket == [magic |-> 0, protocol_version |-> 0, command |-> 0,
               sequence |-> ZeroSequence, payload |-> ZeroPayload]
\* No frame written yet.
NoParse == [written |-> FALSE, parsed |-> FALSE, length |-> 0, parts |-> <<>>,
            parsedData |-> <<>>, dataCount |-> 0, rows |-> {}]
\* gripdeck_data before the first update.
NoDriver ==
    [updated |-> FALSE, batt_mv |-> 0, batt_ma |-> 0, to_empty_s |-> 0,
     charg_mv |-> 0, charg_ma |-> 0, to_full_s |-> 0, capacity |-> 0,
     sent |-> <<>>]
\* StatusManager after begin(): idle, nothing queued.
InitialStatus ==
    [isLowPowerMode |-> FALSE, statusQueue |-> <<>>,
     currentStatus |-> "STATUS_IDLE", patternStartTime |-> 0,
     prevBLEConnected |-> FALSE, prevUSBConnected |-> FALSE,
     prevCharging |-> FALSE]
InitialPowerData == [battery |-> [percentage |-> 0],
                     charger |-> [connected |-> FALSE],
                     powerSavingMode |-> FALSE]
\* A task's power request: what trySetSBCPower was asked, where the task goes
\* on after it, what its admission check read, what it did to the line.
NoCall == [kind |-> "none", ret |-> "idle", canPower |-> FALSE, percentage |-> 0,
           drove |-> FALSE, waitedOut |-> FALSE, keySent |-> FALSE,
           hostStayed |-> FALSE]
NoReturn == [kind |-> "none", percentage |-> 0, drove |-> FALSE, waitedOut |-> FALSE,
             ack |-> FALSE, keySent |-> FALSE, hostStayed |-> FALSE, line |-> FALSE]
NoHandled == [text |-> <<>>, command |-> "none", token |-> "", replies |-> 0,
              called |-> FALSE,
              hid |-> [command |-> "none", key |-> 0, x |-> 0, y |-> 0,
                       buttons |-> 0, text |-> <<>>],
              lineBefore |-> FALSE, hostBefore |-> FALSE]
NoOp == [op |-> "none",
         frame |-> [report_id |-> 0, len |-> 0, packet |-> ZeroPacket],
         staged |-> 0, packet |-> ZeroPacket]
NoNotified == [called |-> FALSE, sent |-> FALSE, response |-> <<>>, mtu |-> 0,
               packets |-> <<>>]
NoGauge == [read |-> FALSE, voltage |-> 0, current |-> 0, percentage |-> 0]
NoSnapshot == [read |-> FALSE, lockTaken |-> FALSE, data |-> InitialPowerData]
NoTelemetry ==
    [read |-> FALSE,
     battery |-> [voltage |-> 0, current |-> 0, percentage |-> 0,
                  toFullyDischargeS |-> 0],
     charger |-> [voltage |-> 0, current |-> 0, connected |-> FALSE,
                  toFullyChargeS |-> 0]]
NoCell == [percentage |-> 0, failures |-> 0, kinds |-> {}]
\* The battery at boot: 0 %, 25 % or 85 %, in units of 1/300 %.
BootCells == {[NoCell EXCEPT !.percentage = p] : p \in {0, 7500, 25500}}
\* The queues and locks the begin() functions create, in the order of setup.
StartupOrder == <<"powerDataMutex", "commandQueue", "bleMutex", "statusQueue",
                  "statusMutex">>
StartupResources == {StartupOrder[i] : i \in 1..Len(StartupOrder)}
\* Those USBManager::initializeFreeRTOSResources creates.
USBResources == {"hidQueue", "hidMutex"}

\* Everything but the position of setup() and the resources it has created.
InitManagers ==
    /\ now = 0
    /\ pinSBC = FALSE
    /\ powerData = InitialPowerData
    /\ mounted = FALSE
    /\ usbConnected = FALSE
    /\ initialized = FALSE
    /\ hidQueue = <<>>
    /\ pc \in [Tasks -> {"begin", "setup", "idle"}]
    /\ \A t \in Tasks \ {"main"} : pc[t] = "idle"
    /\ startTime = [t \in Tasks |-> 0]
    /\ call = [t \in Tasks |-> NoCall]
    /\ lastReturn = NoReturn
    /\ lastActivityTime = 0
    /\ lastActivityCheck = 0
    /\ deepSleepEnabled = TRUE
    /\ deepSleepRequested = FALSE
    /\ currentTime = 0
    /\ buttonDown = FALSE
    /\ lastButtonState = FALSE
    /\ lastButtonTime = 0
    /\ buttonPressed = FALSE
    /\ buttonPressStartTime = 0
    /\ chip = "running"
    /\ sleepEntry = [begun |-> FALSE, pinSBC |-> FALSE, deviceConnected |-> FALSE,
                     context |-> "none"]
    /\ deviceConnected = FALSE
    /\ commandQueue = <<>>
    /\ lastWrite = "none"
    /\ lastHandled = NoHandled
    /\ vendorResponse = ZeroPacket
    /\ vendorResponseReady = FALSE
    /\ hostOps = <<NoOp, NoOp, NoOp, NoOp>>
    /\ notified = NoNotified
    /\ gauge = NoGauge
    /\ snapshot = NoSnapshot
    /\ boot \in [created : {{}, StartupResources}, usbPass : {"none"}]
    /\ telemetry = NoTelemetry
    /\ cell \in BootCells
    /\ unsteady = {}
    /\ blockedAt = -1
    /\ enabledAt = -1
    /\ wired = <<>>
    /\ usbd = [at |-> "idle", target |-> ZeroPacket]
    /\ retrieved = ZeroPacket
    /\ status = InitialStatus
    /\ previousPowerSavingMode = FALSE
    /\ driver = NoDriver
    /\ parse = NoParse

\* setup() has run every begin() and created the tasks.
Init ==
    /\ InitManagers
    /\ pc["main"] = "setup"
    /\ boot.created = StartupResources
    /\ cell = NoCell

\* The same with the battery at any of its levels.
InitWake ==
    /\ InitManagers
    /\ pc["main"] = "setup"
    /\ boot.created = StartupResources

\* setup() is about to run the begin() functions.
InitBoot ==
    /\ InitManagers
    /\ pc["main"] = "begin"
    /\ boot.created = {}
    /\ cell = NoCell

(***************************************************************************)
(* USB vendor protocol: a 32-byte request written as a feature report,     *)
(* the response staged in the single slot vendorResponse and fetched by a  *)
(* later feature-report read.  The 32-bit sequence field is carried as its *)
(* four bytes, as memcpy moves it.                                         *)
(***************************************************************************)
KnownCommands == {CMD_PING, CMD_GET_STATUS, CMD_GET_INFO}

Request(magic, version, command, sequence) ==
    [magic |-> magic, protocol_version |-> version, command |-> command,
     sequence |-> sequence, payload |-> ZeroPayload]

\* Feature reports the host writes: well-formed requests with a known or an
\* unknown command byte, and frames with one integrity field wrong.
WellFormedFrames ==
    { [report_id |-> VENDOR_REPORT_ID, len |-> VENDOR_PACKET_SIZE,
       packet |-> Request(PROTOCOL_MAGIC, PROTOCOL_VERSION, r[1], r[2])] :
         r \in { <<CMD_PING, <<1, 0, 0, 0>> >>,
                 <<CMD_PING, <<255, 255, 255, 255>> >>,
                 <<CMD_GET_STATUS, <<255, 255, 255, 255>> >>,
                 <<CMD_GET_INFO, <<1, 0, 0, 0>> >>,
                 <<CMD_RESERVED, <<1, 0, 0, 0>> >> } }
MalformedFrames ==
    LET ping == Request(PROTOCOL_MAGIC, PROTOCOL_VERSION, CMD_PING, <<1, 0, 0, 0>>)
    IN { [report_id |-> VENDOR_REPORT_ID, len |-> VENDOR_PACKET_SIZE,
          packet |-> [ping EXCEPT !.magic = PROTOCOL_MAGIC + 1]],
         [report_id |-> VENDOR_REPORT_ID, len |-> VENDOR_PACKET_SIZE,
          packet |-> [ping EXCEPT !.protocol_version = PROTOCOL_VERSION + 1]],
         [report_id |-> VENDOR_REPORT_ID, len |-> VENDOR_PACKET_SIZE - 1, packet |-> ping],
         [report_id |-> VENDOR_REPORT_ID, len |-> VENDOR_PACKET_SIZE + 1, packet |-> ping],
         [report_id |-> VENDOR_REPORT_ID + 1, len |-> VENDOR_PACKET_SIZE, packet |-> ping] }
Frames == WellFormedFrames \cup MalformedFrames

\* USBManager::buildStatusPayload / buildInfoPayload
buildStatusPayload ==
    [kind |-> "status",
     battery_percentage |-> powerData.battery.percentage,
     charger_connected |-> powerData.charger.connected]
buildInfoPayload == [kind |-> "info", firmware_version |-> FIRMWARE_VERSION]

\* A sendVendorResponse that leaves the sequence field of the cleared packet.
sendVendorResponse_NoSequence(request, response_type, payload) ==
    [magic |-> PROTOCOL_MAGIC, protocol_version |-> PROTOCOL_VERSION,
     command |-> response_type, sequence |-> ZeroSequence,
     payload |-> payload]

\* USBManager::sendVendorResponse: the packet written into the slot.
sendVendorResponse(request, response_type, payload) ==
    [magic |-> PROTOCOL_MAGIC, protocol_version |-> PROTOCOL_VERSION,
     command |-> response_type, sequence |-> request.sequence,
     payload |-> payload]

handlePingCommand(request) == sendVendorResponse(request, RESP_PONG, ZeroPayload)
handleGetStatusCommand(request) ==
    sendVendorResponse(request, RESP_STATUS, buildStatusPayload)
handleGetInfoCommand(request) ==
    sendVendorResponse(request, RESP_INFO, buildInfoPayload)

\* A handleVendorReport that does not compare the magic.
handleVendorReport_NoMagicCheck(report_id, request, len) ==
    IF report_id # VENDOR_REPORT_ID \/ len # VENDOR_PACKET_SIZE THEN <<>>
    ELSE IF request.protocol_version # PROTOCOL_VERSION THEN <<>>
    ELSE IF request.command = CMD_PING THEN <<handlePingCommand(request)>>
    ELSE IF request.command = CMD_GET_STATUS THEN <<handleGetStatusCommand(request)>>
    ELSE IF request.command = CMD_GET_INFO THEN <<handleGetInfoCommand(request)>>
    ELSE <<>>

\* USBManager::handleVendorReport: the sequence of responses it stages.
handleVendorReport(report_id, request, len) ==
    IF report_id # VENDOR_REPORT_ID \/ len # VENDOR_PACKET_SIZE THEN <<>>
    ELSE IF request.magic # PROTOCOL_MAGIC
            \/ request.protocol_version # PROTOCOL_VERSION THEN <<>>
    ELSE IF request.command = CMD_PING THEN <<handlePingCommand(request)>>
    ELSE IF request.command = CMD_GET_STATUS THEN <<handleGetStatusCommand(request)>>
    ELSE IF request.command = CMD_GET_INFO THEN <<handleGetInfoCommand(request)>>
    ELSE <<>>

\* GripDeckVendorHID::_onSetFeature
onSetFeature(report_id, request, len) ==
    IF report_id = VENDOR_REPORT_ID /\ len >= VENDOR_PACKET_SIZE
    THEN handleVendorReport(report_id, request, len)
    ELSE <<>>

ErrorPacket ==
    [magic |-> PROTOCOL_MAGIC, protocol_version |-> PROTOCOL_VERSION,
     command |-> RESP_ERROR, sequence |-> ZeroSequence, payload |-> ZeroPayload]

\* A getVendorResponse that does not clear vendorResponseReady.
getVendorResponse_KeepReady ==
    IF vendorResponseReady
    THEN [packet |-> vendorResponse, ready |-> vendorResponseReady]
    ELSE [packet |-> ErrorPacket, ready |-> vendorResponseReady]

\* USBManager::getVendorResponse: the packet handed out and the flag after it.
getVendorResponse ==
    IF vendorResponseReady
    THEN [packet |-> vendorResponse, ready |-> FALSE]
    ELSE [packet |-> ErrorPacket, ready |-> vendorResponseReady]

\* The history keeps the last four operations.
Record(ops, e) == <<ops[2], ops[3], ops[4], e>>

\* The host writes a feature report (HIDIOCSFEATURE).
SetFeature(f) ==
    LET staged == onSetFeature(f.report_id, f.packet, f.len)
    IN /\ vendorResponse' = IF staged = <<>> THEN vendorResponse
                            ELSE staged[Len(staged)]
       /\ vendorResponseReady' = IF staged = <<>> THEN vendorResponseReady ELSE TRUE
       /\ hostOps' = Record(hostOps,
              [op |-> "set", frame |-> f, staged |-> Len(staged),
               packet |-> ZeroPacket])
       /\ UNCHANGED <<now, powerVars, sleepVars, buttonVars, bleVars,
                      calcVars>>

\* The host reads a feature report (HIDIOCGFEATURE): GripDeckVendorHID::_onGetFeature.
\* A read with a wrong report id or a short buffer returns 0 bytes.
GetFeature(report_id, len) ==
    LET served == report_id = VENDOR_REPORT_ID /\ len >= VENDOR_PACKET_SIZE
        got == getVendorResponse
    IN /\ vendorResponseReady' = IF served THEN got.ready ELSE vendorResponseReady
       /\ vendorResponse' = vendorResponse
       /\ hostOps' = Record(hostOps,
              [op |-> IF served THEN "get" ELSE "get0",
               frame |-> [report_id |-> report_id, len |-> len, packet |-> ZeroPacket],
               staged |-> 0,
               packet |-> IF served THEN got.packet ELSE ZeroPacket])
       /\ UNCHANGED <<now, powerVars, sleepVars, buttonVars, bleVars,
                      calcVars>>

HostWrites == \E f \in Frames : SetFeature(f)
HostReads ==
    \E len \in {VENDOR_PACKET_SIZE - 1, VENDOR_PACKET_SIZE} :
        GetFeature(VENDOR_REPORT_ID, len)

NextVendor == HostWrites \/ HostReads
SpecVendor == Init /\ [][NextVendor]_vars


(***************************************************************************)
(* Claims about the vendor protocol (checked under SpecVendor)             *)
(***************************************************************************)
\* Magic, protocol version, report id and length of a written frame are valid.
WellFormed(f) ==
    /\ f.report_id = VENDOR_REPORT_ID
    /\ f.len = VENDOR_PACKET_SIZE
    /\ f.packet.magic = PROTOCOL_MAGIC
    /\ f.packet.protocol_version = PROTOCOL_VERSION
Served(f) == WellFormed(f) /\ f.packet.command \in KnownCommands
RespFor(command) ==
    IF command = CMD_PING THEN RESP_PONG
    ELSE IF command = CMD_GET_STATUS THEN RESP_STATUS
    ELSE RESP_INFO
IsWrite(e) == e.op = "set"
IsRead(e) == e.op = "get"
\* Between a request and the retrieval: nothing that is a request or a retrieval.
Inert(e) == e.op = "get0" \/ (e.op = "set" /\ ~WellFormed(e.frame))

\* C7: every binary request whose magic, protocol version and length are valid
\* stages exactly one response, whatever its command byte; only frames with a
\* mismatched magic, version or length stage none.
C7_ValidRequestStagesOne ==
    \A i \in 1..4 :
        IsWrite(hostOps[i]) =>
            (hostOps[i].staged = (IF WellFormed(hostOps[i].frame) THEN 1 ELSE 0))

\* C8: a valid PING, GET_STATUS or GET_INFO request with sequence s, followed by
\* a retrieval with no other request in between, is answered by PONG, STATUS or
\* INFO respectively, carrying exactly the sequence s.
C8_SequenceRoundTrip ==
    \A i \in 1..3 : \A j \in (i + 1)..4 :
        ( /\ IsWrite(hostOps[i]) /\ Served(hostOps[i].frame)
          /\ IsRead(hostOps[j])
          /\ \A k \in (i + 1)..(j - 1) : Inert(hostOps[k]) )
        => /\ hostOps[j].packet.command = RespFor(hostOps[i].frame.packet.command)
           /\ hostOps[j].packet.sequence = hostOps[i].frame.packet.sequence
           /\ hostOps[j].packet.magic = PROTOCOL_MAGIC
           /\ hostOps[j].packet.protocol_version = PROTOCOL_VERSION

C8_Witness ==
    /\ IsWrite(hostOps[3]) /\ Served(hostOps[3].frame)
    /\ hostOps[3].frame.packet.command = CMD_GET_STATUS
    /\ hostOps[3].frame.packet.sequence = <<255, 255, 255, 255>>
    /\ IsRead(hostOps[4])
    /\ hostOps[4].packet.command = RESP_STATUS
    /\ hostOps[4].packet.sequence = <<255, 255, 255, 255>>

\* C9: a request with a wrong magic, protocol version or length stages nothing
\* and leaves the pending-response slot as it was; a retrieval that follows it
\* with nothing pending returns the packet RESP_ERROR with sequence 0.
C9_MalformedFrameDropped ==
    [][ LET e == hostOps'[4] IN
          /\ (IsWrite(e) /\ ~WellFormed(e.frame)) =>
                /\ e.staged = 0
                /\ vendorResponse' = vendorResponse
                /\ vendorResponseReady' = vendorResponseReady
          /\ (IsRead(e) /\ IsWrite(hostOps'[3]) /\ ~WellFormed(hostOps'[3].frame)
                /\ ~vendorResponseReady) =>
                /\ e.packet.command = RESP_ERROR
                /\ e.packet.sequence = ZeroSequence ]_vars

C9_Witness ==
    /\ IsWrite(hostOps[3]) /\ hostOps[3].frame.packet.magic # PROTOCOL_MAGIC
    /\ hostOps[3].frame.len = VENDOR_PACKET_SIZE
    /\ IsRead(hostOps[4])
    /\ hostOps[4].packet.command = RESP_ERROR
    /\ hostOps[4].packet.sequence = ZeroSequence

Running == chip = "running" /\ pc["main"] # "begin"

\* uint32_t difference of two millis() readings compared with a limit: when
\* the later reading is the smaller one the difference wraps to more than
\* 2^32 - MaxTime, which is above every limit used here.
ElapsedAtLeast(t, since, limit) ==
    IF t >= since THEN t - since >= limit ELSE TRUE

Tick ==
    /\ Running
    /\ now + TickMs <= MaxTime
    /\ now' = now + TickMs
    /\ UNCHANGED <<powerVars, sleepVars, buttonVars, bleVars, vendorVars,
                   calcVars>>

\* The user keeps the button down for HoldMs after the press was seen.
Hold ==
    /\ Running
    /\ buttonDown /\ buttonPressed /\ buttonPressStartTime = now
    /\ now % TickMs = 0
    /\ now + HoldMs <= MaxTime
    /\ now' = now + HoldMs
    /\ UNCHANGED <<powerVars, sleepVars, buttonVars, bleVars, vendorVars,
                   calcVars>>

\* The host enumerates the wired interface, or stops presenting as connected.
HostMount ==
    /\ Running /\ ~mounted
    /\ mounted' = TRUE
    /\ UNCHANGED <<now, lastReturn, pinSBC, powerData, usbConnected,
                   initialized, hidQueue, pc, startTime, call, sleepVars,
                   buttonVars, bleVars, vendorVars, calcVars>>

HostUnmount ==
    /\ Running /\ mounted
    /\ mounted' = FALSE
    /\ UNCHANGED <<now, lastReturn, pinSBC, powerData, usbConnected,
                   initialized, hidQueue, pc, startTime, call, sleepVars,
                   buttonVars, bleVars, vendorVars, calcVars>>

\* USBManager::update: the connection flag follows tud_mounted() once millis()
\* is past the hold-off, then processHIDCommands drains the queue; a command
\* is executed (and counts as activity) only while the link is connected.
\* USBManager::initializeFreeRTOSResources creates the queue and the mutex on
\* the first pass; created: both xQueueCreate and xSemaphoreCreateMutex
\* succeed.  When one fails the pass logs the error and returns, and the task
\* loop goes on to its next pass.
USBUpdatePass(created) ==
    /\ Running
    /\ telemetry' = telemetry
    /\ cell' = cell
    /\ IF ~initialized /\ ~created
       THEN /\ boot' = [boot EXCEPT !.usbPass = "returned"]
            /\ UNCHANGED <<initialized, usbConnected, hidQueue, lastActivityTime>>
       ELSE /\ boot' = [created |-> boot.created \cup USBResources,
                        usbPass |-> "ran"]
            /\ initialized' = TRUE
            /\ usbConnected' = IF now > USB_MOUNT_HOLDOFF_MS THEN mounted ELSE FALSE
            /\ hidQueue' = <<>>
            /\ lastActivityTime' =
                   IF hidQueue # <<>> /\ initialized /\ usbConnected'
                   THEN now ELSE lastActivityTime
    /\ UNCHANGED <<now, lastReturn, pinSBC, powerData, mounted, pc, startTime,
                   call, lastActivityCheck, deepSleepEnabled,
                   deepSleepRequested, currentTime, chip, sleepEntry,
                   buttonVars, bleVars, vendorVars, notified, gauge, snapshot>>

USBUpdateWith(created) ==
    /\ USBUpdatePass(created)
    /\ unsteady' = unsteady
    /\ blockedAt' = blockedAt
    /\ UNCHANGED lateVars

USBUpdate == \E created \in BOOLEAN : USBUpdateWith(created)

\* HIDMessage, without its timestamp.
HIDMessage(command, key, x, y, buttons, text) ==
    [command |-> command, key |-> key, x |-> x, y |-> y, buttons |-> buttons,
     text |-> text]
NoHID == HIDMessage("none", 0, 0, 0, 0, <<>>)

\* The tail of every USBManager::send*: refuse when the arguments are not valid
\* or the manager is not initialized, else xQueueSend(hidQueue, &message, 0).
\* The result is the queue after it, whether the message was queued, and
\* the message.
hidSend(message, valid) ==
    IF ~valid \/ ~initialized
    THEN [queue |-> hidQueue, sent |-> FALSE, message |-> NoHID]
    ELSE IF Len(hidQueue) >= HID_QUEUE_SIZE
    THEN [queue |-> hidQueue, sent |-> FALSE, message |-> NoHID]
    ELSE [queue |-> Append(hidQueue, message), sent |-> TRUE, message |-> message]

\* USBManager::sendSystemPowerKey: the queue after it and whether it was queued.
sendSystemPowerKey ==
    hidSend(HIDMessage("HID_SYSTEM_POWER", 0, 0, 0, 0, <<>>), TRUE)

(***************************************************************************)
(* PowerManager: the published snapshot and the power sequencer            *)
(***************************************************************************)
\* The samples readChannels produces: <<battery percentage, charger connected>>.
Samples == {<<4, FALSE>>, <<5, FALSE>>, <<50, TRUE>>}

\* A canPowerOnSBC that admits every non-empty battery.
canPowerOnSBC_NonEmpty(lockTaken) ==
    IF ~lockTaken THEN FALSE ELSE powerData.battery.percentage > 0

\* PowerManager::canPowerOnSBC; lockTaken: the mutex was obtained within 100 ms.
canPowerOnSBC(lockTaken) ==
    IF ~lockTaken THEN FALSE
    ELSE powerData.battery.percentage >= BATTERY_MIN_PERCENTAGE

isSBCPowerOn == pinSBC

\* PowerManager::setPowerData
setPowerData(percentage, chargerConnected, lockTaken) ==
    IF ~lockTaken THEN powerData
    ELSE [battery |-> [percentage |-> percentage],
          charger |-> [connected |-> chargerConnected],
          powerSavingMode |-> (~chargerConnected /\ percentage <= BATTERY_SAVING_MODE)]

\* What the uninitialized local of getPowerData can hold: whatever the stack
\* held before, among it all zeros and a full battery on the charger.
GarbageSnapshots ==
    {InitialPowerData,
     [battery |-> [percentage |-> 4], charger |-> [connected |-> FALSE],
      powerSavingMode |-> FALSE],
     [battery |-> [percentage |-> 5], charger |-> [connected |-> TRUE],
      powerSavingMode |-> TRUE],
     [battery |-> [percentage |-> 100], charger |-> [connected |-> TRUE],
      powerSavingMode |-> TRUE]}

\* PowerManager::getPowerData: the local data is assigned only when the lock
\* is obtained within 100 ms, and returned in either case.
getPowerData(lockTaken, garbage) ==
    IF lockTaken THEN powerData ELSE garbage

\* PowerManager::shouldSBCBePoweredOn
shouldSBCBePoweredOn(lockTaken, garbage) ==
    getPowerData(lockTaken, garbage).battery.percentage >= BATTERY_MIN_PERCENTAGE

\* The positions of a task inside trySetSBCPower.
SequencerPcs == {"on_check", "on_admit", "on_write", "on_wait", "on_ack",
                 "off_key", "off_wait", "off_write"}
Inside(t) == pc[t] \in SequencerPcs

\* trySetSBCPower returns in task t, with the line at level line.
Return(t, ack, line) ==
    /\ pc' = [pc EXCEPT ![t] = call[t].ret]
    /\ call' = [call EXCEPT ![t] = NoCall]
    /\ lastReturn' = [kind |-> call[t].kind, percentage |-> call[t].percentage,
                      drove |-> call[t].drove, waitedOut |-> call[t].waitedOut,
                      ack |-> ack, keySent |-> call[t].keySent,
                      hostStayed |-> call[t].hostStayed, line |-> line]

\* Task t calls trySetSBCPower(on) and continues at ret when it returns.  At
\* most limit tasks are inside trySetSBCPower at the same time; the function
\* itself takes no lock.
StartCallWithin(t, on, ret, limit) ==
    /\ Cardinality({u \in Tasks : Inside(u)}) < limit
    /\ call' = [call EXCEPT ![t] = [NoCall EXCEPT !.kind = IF on THEN "on" ELSE "off",
                                                  !.ret = ret]]
    /\ pc' = [pc EXCEPT ![t] = IF on THEN "on_check" ELSE "off_key"]
    /\ lastReturn' = NoReturn

StartCall(t, on, ret) == StartCallWithin(t, on, ret, MaxActive)

\* trySetSBCPower(true): canPower = canPowerOnSBC()
TryOnCheck(t) ==
    /\ Running /\ pc[t] = "on_check"
    /\ \E lockTaken \in BOOLEAN :
         call' = [call EXCEPT ![t].canPower = canPowerOnSBC(lockTaken),
                              ![t].percentage = powerData.battery.percentage]
    /\ pc' = [pc EXCEPT ![t] = "on_admit"]
    /\ UNCHANGED <<now, lastReturn, pinSBC, powerData, mounted, usbConnected,
                   initialized, hidQueue, startTime, sleepVars, buttonVars,
                   bleVars, vendorVars, calcVars>>

\* sbcAlreadyOn = isSBCPowerOn(); denied requests return here.
TryOnAdmit(t) ==
    /\ Running /\ pc[t] = "on_admit"
    /\ IF ~call[t].canPower \/ isSBCPowerOn
       THEN Return(t, FALSE, pinSBC)
       ELSE /\ pc' = [pc EXCEPT ![t] = "on_write"]
            /\ UNCHANGED <<call, lastReturn>>
    /\ UNCHANGED <<now, pinSBC, powerData, mounted, usbConnected, initialized,
                   hidQueue, startTime, sleepVars, buttonVars, bleVars,
                   vendorVars, calcVars>>

\* digitalWrite(PIN_SBC_POWER_MOSFET, HIGH); startTime = millis()
TryOnWrite(t) ==
    /\ Running /\ pc[t] = "on_write"
    /\ pinSBC' = TRUE
    /\ startTime' = [startTime EXCEPT ![t] = now]
    /\ call' = [call EXCEPT ![t].drove = TRUE]
    /\ pc' = [pc EXCEPT ![t] = "on_wait"]
    /\ UNCHANGED <<now, lastReturn, powerData, mounted, usbConnected,
                   initialized, hidQueue, sleepVars, buttonVars, bleVars,
                   vendorVars, calcVars>>

\* The loop that waits for the host ends: it saw the link connected, or the
\* timeout elapsed.  startTime is not read after its loop and is cleared.
OnWaitOver(t) ==
    IF usbConnected THEN TRUE
    ELSE ElapsedAtLeast(now, startTime[t], USB_CONNECTION_TIMEOUT)

TryOnWaitDone(t) ==
    /\ Running /\ pc[t] = "on_wait"
    /\ OnWaitOver(t)
    /\ pc' = [pc EXCEPT ![t] = "on_ack"]
    /\ call' = [call EXCEPT ![t].waitedOut = ~usbConnected]
    /\ startTime' = [startTime EXCEPT ![t] = 0]
    /\ UNCHANGED <<now, lastReturn, pinSBC, powerData, mounted, usbConnected,
                   initialized, hidQueue, sleepVars, buttonVars, bleVars,
                   vendorVars, calcVars>>

\* A power-on that returns after the wait whatever the connection flag says.
TryOnAck_AlwaysReturn(t) ==
    /\ Running /\ pc[t] = "on_ack"
    /\ Return(t, usbConnected, pinSBC)
    /\ UNCHANGED <<now, pinSBC, powerData, mounted, usbConnected, initialized,
                   hidQueue, startTime, sleepVars, buttonVars, bleVars,
                   vendorVars, calcVars>>

\* if (usbManager->isUSBConnected()) return; else trySetSBCPower(false)
TryOnAck(t) ==
    /\ Running /\ pc[t] = "on_ack"
    /\ IF usbConnected
       THEN Return(t, TRUE, pinSBC)
       ELSE /\ pc' = [pc EXCEPT ![t] = "off_key"]
            /\ UNCHANGED <<call, lastReturn>>
    /\ UNCHANGED <<now, pinSBC, powerData, mounted, usbConnected, initialized,
                   hidQueue, startTime, sleepVars, buttonVars, bleVars,
                   vendorVars, calcVars>>

\* trySetSBCPower(false): sendSystemPowerKey(); startTime = millis()
TryOffKey(t) ==
    /\ Running /\ pc[t] = "off_key"
    /\ hidQueue' = sendSystemPowerKey.queue
    /\ call' = [call EXCEPT ![t].keySent = sendSystemPowerKey.sent]
    /\ startTime' = [startTime EXCEPT ![t] = now]
    /\ pc' = [pc EXCEPT ![t] = "off_wait"]
    /\ UNCHANGED <<now, lastReturn, pinSBC, powerData, mounted, usbConnected,
                   initialized, sleepVars, buttonVars, bleVars, vendorVars,
                   calcVars>>

\* The loop that waits for the host to go away ends.
OffWaitOver(t) ==
    IF ~usbConnected THEN TRUE
    ELSE ElapsedAtLeast(now, startTime[t], USB_CONNECTION_TIMEOUT)

TryOffWaitDone(t) ==
    /\ Running /\ pc[t] = "off_wait"
    /\ OffWaitOver(t)
    /\ pc' = [pc EXCEPT ![t] = "off_write"]
    /\ call' = [call EXCEPT ![t].hostStayed = usbConnected]
    /\ startTime' = [startTime EXCEPT ![t] = 0]
    /\ UNCHANGED <<now, lastReturn, pinSBC, powerData, mounted, usbConnected,
                   initialized, hidQueue, sleepVars, buttonVars, bleVars,
                   vendorVars, calcVars>>

\* A power-off that skips the final write when the key could not be queued.
TryOffWrite_OnlyAfterKey(t) ==
    /\ Running /\ pc[t] = "off_write"
    /\ pinSBC' = IF call[t].keySent THEN FALSE ELSE pinSBC
    /\ Return(t, FALSE, pinSBC')
    /\ UNCHANGED <<now, powerData, mounted, usbConnected, initialized, hidQueue,
                   startTime, sleepVars, buttonVars, bleVars, vendorVars,
                   calcVars>>

\* digitalWrite(PIN_SBC_POWER_MOSFET, LOW), the last statement of the off path.
TryOffWrite(t) ==
    /\ Running /\ pc[t] = "off_write"
    /\ pinSBC' = FALSE
    /\ Return(t, FALSE, pinSBC')
    /\ UNCHANGED <<now, powerData, mounted, usbConnected, initialized, hidQueue,
                   startTime, sleepVars, buttonVars, bleVars, vendorVars,
                   calcVars>>

\* PowerManager::update: a new sample is published, then the consistency
\* check forces the line off when the battery no longer allows it to be on.
PowerUpdate ==
    /\ Running /\ pc["power"] = "idle"
    /\ \E sample \in Samples, lockTaken \in BOOLEAN :
         powerData' = setPowerData(sample[1], sample[2], lockTaken)
    /\ pc' = [pc EXCEPT !["power"] = "check"]
    /\ UNCHANGED <<now, pinSBC, mounted, usbConnected, initialized, hidQueue,
                   startTime, call, lastReturn, sleepVars, buttonVars, bleVars,
                   vendorVars, calcVars>>

PowerCheckWithin(limit) ==
    /\ Running /\ pc["power"] = "check"
    /\ \E lockTaken \in BOOLEAN, garbage \in GarbageSnapshots :
         IF ~shouldSBCBePoweredOn(lockTaken, garbage) /\ isSBCPowerOn
         THEN StartCallWithin("power", FALSE, "idle", limit)
         ELSE /\ pc' = [pc EXCEPT !["power"] = "idle"]
              /\ UNCHANGED <<call, lastReturn>>
    /\ UNCHANGED <<now, pinSBC, powerData, mounted, usbConnected,
                   initialized, hidQueue, startTime, sleepVars, buttonVars,
                   bleVars, vendorVars, calcVars>>

PowerCheck == PowerCheckWithin(MaxActive)

\* setup() ends: after a wake by the power button it asks for power, with
\* the tasks already created.
SetupEnd ==
    /\ Running /\ pc["main"] = "setup"
    /\ \E wokeUpFromPowerButton \in BOOLEAN :
         IF wokeUpFromPowerButton THEN StartCall("main", TRUE, "loop")
         ELSE /\ pc' = [pc EXCEPT !["main"] = "loop"]
              /\ UNCHANGED <<call, lastReturn>>
    /\ UNCHANGED <<now, pinSBC, powerData, mounted, usbConnected,
                   initialized, hidQueue, startTime, sleepVars, buttonVars,
                   bleVars, vendorVars, calcVars>>

\* The BLE task reaches powerManager->trySetSBCPower(on) in handleCommand
\* (POWER_ON: on; POWER_OFF, SHUTDOWN: off); the handler around the call is
\* ProcessCommand and BleReply below.
PowerCommandWithin(limit) ==
    /\ Running /\ pc["ble"] = "idle"
    /\ \E on \in BOOLEAN : StartCallWithin("ble", on, "idle", limit)
    /\ UNCHANGED <<now, pinSBC, powerData, mounted, usbConnected,
                   initialized, hidQueue, startTime, sleepVars, buttonVars,
                   bleVars, vendorVars, calcVars>>

PowerCommand == PowerCommandWithin(MaxActive)

\* The system task reaches trySetSBCPower(!isSBCPowerOn()) in checkPowerButton
\* (a short press); the handler around the call is SystemCheckButton below.
ShortPress ==
    /\ Running /\ pc["system"] = "idle"
    /\ StartCall("system", ~isSBCPowerOn, "idle")
    /\ UNCHANGED <<now, pinSBC, powerData, mounted, usbConnected,
                   initialized, hidQueue, startTime, sleepVars, buttonVars,
                   bleVars, vendorVars, calcVars>>

\* The steps of trySetSBCPower, in every task that is inside it.  The USB
\* task (period 10 ms) runs before more than MaxKeys keys are left queued.
Sequencer ==
    /\ Len(hidQueue) <= MaxKeys
    /\ \E t \in Tasks :
         \/ TryOnCheck(t)
         \/ TryOnAdmit(t)
         \/ TryOnWrite(t)
         \/ TryOnWaitDone(t)
         \/ TryOnAck(t)
         \/ TryOffKey(t)
         \/ TryOffWaitDone(t)
         \/ TryOffWrite(t)

(***************************************************************************)
(* BLEManager: the text command queue                                      *)
(***************************************************************************)
\* A text frame.  Its text is a sequence of atoms: an atom is one of the
\* characters the parser looks for (':', '|', ' ', '\n', '\r') or a word, a
\* maximal run of other characters shorter than a parsedData entry; length is
\* the number of bytes written.
Frame(text, length) == [text |-> text, length |-> length]

BLE_CMD_PART_SEPARATOR == ":"
BLE_CMD_DATA_SEPARATOR == "|"
Blank == {" ", "\n", "\r"}

commandMap ==
    {"POWER_INFO", "POWER_ON", "POWER_OFF", "SHUTDOWN",
     "HID_KEYBOARD_PRESS", "HID_KEYBOARD_HOLD", "HID_KEYBOARD_RELEASE",
     "HID_KEYBOARD_TYPE", "HID_MOUSE_MOVE", "HID_MOUSE_PRESS", "HID_MOUSE_HOLD",
     "HID_MOUSE_RELEASE", "HID_MOUSE_SCROLL", "HID_GAMEPAD_PRESS",
     "HID_GAMEPAD_HOLD", "HID_GAMEPAD_RELEASE", "HID_GAMEPAD_RIGHT_AXIS",
     "HID_GAMEPAD_LEFT_AXIS", "HID_SYSTEM_POWER", "SYSTEM_INFO", "SYSTEM_RESTART",
     "DEEP_SLEEP_INFO", "DEEP_SLEEP_ENABLE", "DEEP_SLEEP_DISABLE", "HELP"}

\* parseCommand's loop over the end of cleanData: '\n', '\r' and ' ' are cut.
RECURSIVE trimTrailing(_)
trimTrailing(text) ==
    IF text # <<>> /\ text[Len(text)] \in Blank
    THEN trimTrailing(SubSeq(text, 1, Len(text) - 1))
    ELSE text

RECURSIVE skipDelimiters(_, _)
skipDelimiters(text, delimiter) ==
    IF text # <<>> /\ Head(text) = delimiter
    THEN skipDelimiters(Tail(text), delimiter)
    ELSE text

\* The number of atoms before the first delimiter, or to the end of the text.
tokenLength(text, delimiter) ==
    LET stops == {i \in 1..Len(text) : text[i] = delimiter}
    IN IF stops = {} THEN Len(text)
       ELSE (CHOOSE i \in stops : \A j \in stops : i <= j) - 1

\* strtok with a one-character delimiter set: leading delimiters are skipped,
\* the token runs to the next delimiter, which is consumed; no token when
\* nothing but delimiters is left.
strtok(text, delimiter) ==
    LET start == skipDelimiters(text, delimiter)
        n == tokenLength(start, delimiter)
    IN IF start = <<>>
       THEN [found |-> FALSE, token |-> <<>>, rest |-> <<>>]
       ELSE [found |-> TRUE, token |-> SubSeq(start, 1, n),
             rest |-> SubSeq(start, n + 2, Len(start))]

\* strncpy(parsedData[i], token, sizeof(parsedData[i]) - 1) and the terminator
\* written into the last byte: the entry holds at most 31 atoms of the token
\* (characters, in a frame written character by character).
copyField(token) ==
    IF Len(token) < PARSED_DATA_SIZE THEN token
    ELSE SubSeq(token, 1, PARSED_DATA_SIZE - 1)

\* A loop over dataPart that does not test dataCount.
RECURSIVE dataFields_NoLimit(_, _)
dataFields_NoLimit(text, room) ==
    LET next == strtok(text, BLE_CMD_DATA_SEPARATOR)
    IN IF ~next.found THEN <<>>
       ELSE <<next.token>> \o dataFields_NoLimit(next.rest, room - 1)

\* The loop of parseDataComponents over dataPart: at most room more fields.
RECURSIVE dataFields(_, _)
dataFields(text, room) ==
    LET next == strtok(text, BLE_CMD_DATA_SEPARATOR)
    IN IF room = 0 \/ ~next.found THEN <<>>
       ELSE <<next.token>> \o dataFields(next.rest, room - 1)

\* BLEManager::parseDataComponents: the entries of parsedData are cleared,
\* then the first dataCount of them are filled.  strtok(NULL, "") gives the
\* rest of the text after the first ':' that follows the command part.
parseDataComponents(data) ==
    LET commandPart == strtok(data, BLE_CMD_PART_SEPARATOR)
        filled == IF commandPart.found
                  THEN <<commandPart.token>>
                       \o dataFields(commandPart.rest, PARSED_DATA_COUNT - 1)
                  ELSE <<data>>
    IN [parsedData |-> [i \in 1..PARSED_DATA_COUNT |->
                          IF i <= Len(filled) THEN copyField(filled[i]) ELSE <<>>],
        dataCount |-> Len(filled)]

\* BLEManager::parseCommand: the message handed to handleCommand.
parseCommand(text) ==
    LET components == parseDataComponents(trimTrailing(text))
        commandPart == components.parsedData[1]
    IN [command |-> IF Len(commandPart) = 1 /\ commandPart[1] \in commandMap
                    THEN commandPart[1] ELSE "UNKNOWN",
        parsedData |-> components.parsedData,
        dataCount |-> components.dataCount]

\* atoi on a word: the words written below that are decimal numbers; every
\* other word does not start with a number.
atoiWord(word) ==
    CASE word = "10" -> 10
      [] word = "-5" -> 0 - 5
      [] word = "65" -> 65
      [] word = "1" -> 1
      [] word = "9" -> 9
      [] word = "300" -> 300
      [] OTHER -> 0

\* atoi on a field: white space is skipped, then the number ends at the
\* first character that is not a digit.
atoi(field) ==
    LET start == IF field # <<>> /\ Head(field) = " " THEN Tail(field) ELSE field
    IN IF start = <<>> THEN 0 ELSE atoiWord(Head(start))

uint8(n) == n % 256
int16(n) == LET m == n % 65536 IN IF m >= 32768 THEN m - 65536 ELSE m
int8(n) == LET m == n % 256 IN IF m >= 128 THEN m - 256 ELSE m

PowerCommands == {"POWER_ON", "POWER_OFF", "SHUTDOWN"}

\* The commands of handleCommand that take data fields, and the dataCount
\* each asks for (the command part counts as one).
requiredDataCount_Two(command) == 2

DataCommands ==
    {"HID_KEYBOARD_PRESS", "HID_KEYBOARD_HOLD", "HID_KEYBOARD_RELEASE",
     "HID_KEYBOARD_TYPE", "HID_MOUSE_MOVE", "HID_MOUSE_PRESS", "HID_MOUSE_HOLD",
     "HID_MOUSE_RELEASE", "HID_MOUSE_SCROLL", "HID_GAMEPAD_PRESS",
     "HID_GAMEPAD_HOLD", "HID_GAMEPAD_RELEASE", "HID_GAMEPAD_RIGHT_AXIS",
     "HID_GAMEPAD_LEFT_AXIS"}
requiredDataCount(command) ==
    IF command \in {"HID_MOUSE_MOVE", "HID_MOUSE_SCROLL",
                    "HID_GAMEPAD_RIGHT_AXIS", "HID_GAMEPAD_LEFT_AXIS"}
    THEN 3 ELSE 2

isValidMouseButton(button) == button > 0 /\ button <= 7

\* The USBManager::send* call handleCommand makes for a data command whose
\* dataCount is sufficient.
hidDispatch(message) ==
    LET command == message.command
        first == message.parsedData[2]
        second == message.parsedData[3]
    IN CASE command \in {"HID_KEYBOARD_PRESS", "HID_KEYBOARD_HOLD",
                         "HID_KEYBOARD_RELEASE"} ->
              hidSend(HIDMessage(command, uint8(atoi(first)), 0, 0, 0, <<>>), TRUE)
         [] command = "HID_KEYBOARD_TYPE" ->
              hidSend(HIDMessage(command, 0, 0, 0, 0, first), first # <<>>)
         [] command \in {"HID_MOUSE_MOVE", "HID_GAMEPAD_RIGHT_AXIS",
                         "HID_GAMEPAD_LEFT_AXIS"} ->
              hidSend(HIDMessage(command, 0, int16(atoi(first)),
                                 int16(atoi(second)), 0, <<>>), TRUE)
         [] command = "HID_MOUSE_SCROLL" ->
              hidSend(HIDMessage(command, 0, int8(atoi(first)),
                                 int8(atoi(second)), 0, <<>>), TRUE)
         [] command \in {"HID_MOUSE_PRESS", "HID_MOUSE_HOLD", "HID_MOUSE_RELEASE"} ->
              hidSend(HIDMessage(command, 0, 0, 0, uint8(atoi(first)), <<>>),
                      isValidMouseButton(uint8(atoi(first))))
         [] OTHER ->
              hidSend(HIDMessage("HID_GAMEPAD_BUTTON", uint8(atoi(first)), 0, 0,
                                 IF command = "HID_GAMEPAD_PRESS" THEN 128 ELSE 0,
                                 <<>>), TRUE)

\* What handleCommand does to the HID queue: called is whether a
\* USBManager::send* was called at all.
hidOutcome(message) ==
    IF message.command \in DataCommands
    THEN IF message.dataCount >= requiredDataCount(message.command)
         THEN [called |-> TRUE, result |-> hidDispatch(message)]
         ELSE [called |-> FALSE,
               result |-> [queue |-> hidQueue, sent |-> FALSE, message |-> NoHID]]
    ELSE IF message.command = "HID_SYSTEM_POWER"
    THEN [called |-> TRUE, result |-> sendSystemPowerKey]
    ELSE [called |-> FALSE,
          result |-> [queue |-> hidQueue, sent |-> FALSE, message |-> NoHID]]

\* The frames a client writes to load the queue: a known keyword, an unknown
\* one, an empty frame and a frame of RAW_DATA_SIZE characters.
QueueFrames == {Frame(<<"HELP">>, 4), Frame(<<"NO_SUCH_COMMAND">>, 15),
                Frame(<<>>, 0), Frame(<<"OVERLONG">>, RAW_DATA_SIZE)}

\* BLEManager::sendResponse: the number of replies that reach the client.
sendResponse == IF deviceConnected THEN 1 ELSE 0

\* The reply handleCommand passes to sendResponse for a command that is
\* not a power command; sent is the result of the USBManager::send* call.
responseToken(command, sent) ==
    IF command \in {"POWER_INFO", "SYSTEM_INFO", "DEEP_SLEEP_INFO"} THEN "info"
    ELSE IF command = "HELP" THEN "help"
    ELSE IF command = "UNKNOWN" THEN "unknown"
    ELSE IF command \in {"SYSTEM_RESTART", "DEEP_SLEEP_ENABLE", "DEEP_SLEEP_DISABLE"}
         THEN "1"
    ELSE IF sent THEN "1" ELSE "0"

OnConnect ==
    /\ Running /\ ~deviceConnected
    /\ deviceConnected' = TRUE
    /\ UNCHANGED <<now, powerVars, sleepVars, buttonVars, commandQueue,
                   lastWrite, lastHandled, vendorVars, calcVars>>

OnDisconnect ==
    /\ Running /\ deviceConnected
    /\ deviceConnected' = FALSE
    /\ UNCHANGED <<now, powerVars, sleepVars, buttonVars, commandQueue,
                   lastWrite, lastHandled, vendorVars, calcVars>>

\* xQueueSendFromISR on a queue of QUEUE_SIZE_COMMANDS entries.
QueueSend(queue, message) ==
    IF Len(queue) < QUEUE_SIZE_COMMANDS THEN Append(queue, message) ELSE queue

\* CharacteristicCallbacks::onWrite
OnWrite(f) ==
    LET accepted == f.length > 0 /\ f.length < RAW_DATA_SIZE
        queue == IF accepted THEN QueueSend(commandQueue, f) ELSE commandQueue
    IN /\ Running /\ deviceConnected
       /\ commandQueue' = queue
       /\ lastActivityTime' = IF accepted THEN now ELSE lastActivityTime
       /\ lastWrite' = IF ~accepted THEN "ignored"
                        ELSE IF queue # commandQueue THEN "queued"
                        ELSE "dropped"
       /\ UNCHANGED <<now, powerVars, lastActivityCheck, deepSleepEnabled,
                      deepSleepRequested, currentTime, chip, sleepEntry,
                      buttonVars, deviceConnected, lastHandled, vendorVars,
                      calcVars>>

\* One iteration of the loop of processCommands: xQueueReceive, parseCommand,
\* handleCommand.  A power command replies after trySetSBCPower has returned.
ProcessCommandPass ==
    /\ Running /\ pc["ble"] = "idle" /\ commandQueue # <<>>
    /\ LET frame == Head(commandQueue)
           message == parseCommand(frame.text)
           command == message.command
           power == command \in PowerCommands
           hid == hidOutcome(message)
       IN /\ commandQueue' = Tail(commandQueue)
          /\ IF power THEN StartCall("ble", command = "POWER_ON", "reply")
                      ELSE UNCHANGED <<pc, call, lastReturn>>
          /\ lastHandled' =
                [text |-> frame.text, command |-> command,
                 token |-> IF power THEN ""
                           ELSE responseToken(command, hid.result.sent),
                 replies |-> IF power THEN 0 ELSE sendResponse,
                 called |-> hid.called, hid |-> hid.result.message,
                 lineBefore |-> pinSBC, hostBefore |-> usbConnected]
          /\ hidQueue' = hid.result.queue
          /\ deepSleepEnabled' = IF command = "DEEP_SLEEP_ENABLE" THEN TRUE
                                 ELSE IF command = "DEEP_SLEEP_DISABLE" THEN FALSE
                                 ELSE deepSleepEnabled
          /\ lastActivityTime' =
                IF command \in {"DEEP_SLEEP_ENABLE", "SYSTEM_RESTART"}
                THEN now ELSE lastActivityTime
          /\ chip' = IF command = "SYSTEM_RESTART" THEN "restart" ELSE chip
    /\ UNCHANGED <<now, pinSBC, powerData, mounted, usbConnected,
                   initialized, startTime, lastActivityCheck,
                   deepSleepRequested, currentTime, sleepEntry, buttonVars,
                   deviceConnected, lastWrite, vendorVars, notified, gauge,
                   snapshot, boot, telemetry, cell, unsteady, blockedAt>>

ProcessCommand ==
    /\ ProcessCommandPass
    /\ UNCHANGED lateVars

\* handleCommand after trySetSBCPower: sendResponse(BLE_CMD_WAS_SUCCESSFUL)
BleReply ==
    /\ Running /\ pc["ble"] = "reply"
    /\ lastHandled' = [lastHandled EXCEPT !.token = "1", !.replies = sendResponse]
    /\ pc' = [pc EXCEPT !["ble"] = "idle"]
    /\ UNCHANGED <<now, pinSBC, powerData, mounted, usbConnected, initialized,
                   hidQueue, startTime, call, lastReturn, sleepVars, buttonVars,
                   deviceConnected, commandQueue, lastWrite, vendorVars,
                   calcVars>>

ClientWrites == \E f \in QueueFrames : OnWrite(f)

\* The text frames of a client that exercises the parser and the handlers of
\* the commands that take data fields.
Text(text) == Frame(text, Len(text))
KeywordFrames ==
    {Text(<<"HELP">>), Text(<<"help">>), Text(<<"HELPX">>),
     Text(<<"HELP", "\n">>), Text(<<"HELP", " ", "\r", "\n">>),
     Text(<<" ", "HELP">>), Text(<<"HELP", ":", "x">>),
     Text(<<"HELP", " ", ":", "x">>), Text(<<":", "HELP">>),
     Text(<<":">>), Text(<<" ">>), Text(<<"DEEP_SLEEP_INFO">>),
     Text(<<"HID_SYSTEM_POWER">>)}
BareDataFrames == {Text(<<command>>) : command \in DataCommands}
ShortDataFrames ==
    {Text(<<command, ":", "10">>) :
        command \in {"HID_MOUSE_MOVE", "HID_MOUSE_SCROLL",
                     "HID_GAMEPAD_RIGHT_AXIS", "HID_GAMEPAD_LEFT_AXIS"}}
    \cup {Text(<<"HID_KEYBOARD_PRESS", ":">>), Text(<<"HID_MOUSE_PRESS", ":", "|">>)}
FullDataFrames ==
    {Text(<<"HID_MOUSE_MOVE", ":", "10", ":", "-5">>),
     Text(<<"HID_MOUSE_MOVE", ":", "10", "|", "-5">>),
     Text(<<"HID_MOUSE_SCROLL", ":", "300", "|", "-5", "\n">>),
     Text(<<"HID_KEYBOARD_PRESS", ":", "65">>),
     Text(<<"HID_MOUSE_PRESS", ":", "1">>),
     Text(<<"HID_MOUSE_PRESS", ":", "9">>),
     Text(<<"HID_GAMEPAD_PRESS", ":", "1">>)}
TextFrames == KeywordFrames \cup BareDataFrames \cup ShortDataFrames
                 \cup FullDataFrames

\* The client writes while fewer than MaxPending frames are waiting, and the
\* USB task has run before more than MaxKeys messages are left queued.
ClientWritesText ==
    /\ Len(commandQueue) < MaxPending
    /\ Len(hidQueue) < MaxKeys
    /\ \E f \in TextFrames : OnWrite(f)

\* A client that drives the power sequencer: it writes a power command while
\* fewer than MaxPending frames are waiting.
PowerFrames == {Frame(<<"POWER_ON">>, 8), Frame(<<"POWER_OFF">>, 9)}
ClientWritesPower ==
    /\ Len(commandQueue) < MaxPending
    /\ \E f \in PowerFrames : OnWrite(f)

(***************************************************************************)
(* SystemManager: the power button, the sleep watchdog, deep sleep         *)
(***************************************************************************)
ButtonPress ==
    /\ Running /\ ~buttonDown
    /\ buttonDown' = TRUE
    /\ UNCHANGED <<now, powerVars, sleepVars, lastButtonState, lastButtonTime,
                   buttonPressed, buttonPressStartTime, bleVars, vendorVars,
                   calcVars>>

ButtonRelease ==
    /\ Running /\ buttonDown
    /\ buttonDown' = FALSE
    /\ UNCHANGED <<now, powerVars, sleepVars, lastButtonState, lastButtonTime,
                   buttonPressed, buttonPressStartTime, bleVars, vendorVars,
                   calcVars>>

\* SystemManager::checkPowerButton, the first statement of update()
SystemCheckButton ==
    /\ Running /\ pc["system"] = "idle"
    /\ LET changed == /\ buttonDown # lastButtonState
                      /\ now - lastButtonTime > POWER_BUTTON_DEBOUNCE
           released == changed /\ ~buttonDown /\ buttonPressed
           pressDuration == now - buttonPressStartTime
           short == /\ released
                    /\ pressDuration >= POWER_BUTTON_SHORT_PRESS_MIN
                    /\ pressDuration <= POWER_BUTTON_SHORT_PRESS_MAX
           long == released /\ ~short /\ pressDuration >= POWER_BUTTON_LONG_PRESS_MIN
       IN /\ lastButtonState' = IF changed THEN buttonDown ELSE lastButtonState
          /\ lastButtonTime' = IF changed THEN now ELSE lastButtonTime
          /\ buttonPressed' = IF changed THEN buttonDown ELSE buttonPressed
          /\ buttonPressStartTime' =
                IF changed /\ buttonDown THEN now ELSE buttonPressStartTime
          /\ lastActivityTime' = IF changed /\ buttonDown THEN now ELSE lastActivityTime
          /\ pinSBC' = IF long THEN FALSE ELSE pinSBC
          /\ IF short THEN StartCall("system", ~isSBCPowerOn, "watchdog")
                      ELSE /\ pc' = [pc EXCEPT !["system"] = "watchdog"]
                           /\ UNCHANGED <<call, lastReturn>>
    /\ UNCHANGED <<now, powerData, mounted, usbConnected,
                   initialized, hidQueue, startTime, lastActivityCheck,
                   deepSleepEnabled, deepSleepRequested, currentTime, chip,
                   sleepEntry, buttonDown, bleVars, vendorVars, calcVars>>

\* updateDeepSleepWatchdog: uint32_t currentTime = millis()
SystemWatchdogRead ==
    /\ Running /\ pc["system"] = "watchdog"
    /\ currentTime' = now
    /\ pc' = [pc EXCEPT !["system"] = "compare"]
    /\ UNCHANGED <<now, pinSBC, powerData, mounted, usbConnected, initialized,
                   hidQueue, startTime, call, lastReturn, lastActivityTime,
                   lastActivityCheck,
                   deepSleepEnabled, deepSleepRequested, chip, sleepEntry,
                   buttonVars, bleVars, vendorVars, calcVars>>

shouldEnterDeepSleep == ~isSBCPowerOn /\ ~deviceConnected

\* A watchdog that fires only when the idle time exceeds the timeout.
WatchdogExpired_Strict(t, since) ==
    ElapsedAtLeast(t, since, DEEP_SLEEP_WATCHDOG_TIMEOUT_MS + 1)

\* timeSinceActivity >= DEEP_SLEEP_WATCHDOG_TIMEOUT_MS
WatchdogExpired(t, since) ==
    ElapsedAtLeast(t, since, DEEP_SLEEP_WATCHDOG_TIMEOUT_MS)

\* updateDeepSleepWatchdog, the rest of it
SystemWatchdogCheck ==
    /\ Running /\ pc["system"] = "compare"
    /\ LET due == ElapsedAtLeast(currentTime, lastActivityCheck,
                                 DEEP_SLEEP_ACTIVITY_RESET_INTERVAL_MS)
           armed == due /\ deepSleepEnabled
       IN /\ lastActivityCheck' = IF due THEN currentTime ELSE lastActivityCheck
          /\ deepSleepRequested' =
                IF armed /\ shouldEnterDeepSleep
                         /\ WatchdogExpired(currentTime, lastActivityTime)
                THEN TRUE ELSE deepSleepRequested
          /\ lastActivityTime' =
                IF armed /\ ~shouldEnterDeepSleep THEN now ELSE lastActivityTime
    /\ pc' = [pc EXCEPT !["system"] = "act"]
    /\ UNCHANGED <<now, lastReturn, pinSBC, powerData, mounted, usbConnected,
                   initialized, hidQueue, startTime, call, deepSleepEnabled,
                   currentTime, chip, sleepEntry, buttonVars, bleVars,
                   vendorVars, calcVars>>

\* update(): if (deepSleepRequested) { deepSleepRequested = false; delay(10); ... }
SystemActOnRequest ==
    /\ Running /\ pc["system"] = "act"
    /\ deepSleepRequested' = FALSE
    /\ pc' = [pc EXCEPT !["system"] = IF deepSleepRequested THEN "sleep" ELSE "idle"]
    /\ UNCHANGED <<now, lastReturn, pinSBC, powerData, mounted, usbConnected,
                   initialized, hidQueue, startTime, call, lastActivityTime,
                   lastActivityCheck, deepSleepEnabled, currentTime, chip,
                   sleepEntry, buttonVars, bleVars, vendorVars, calcVars>>

\* enterDeepSleep() begins: the wake sources are configured.
EnterDeepSleep ==
    /\ Running /\ pc["system"] = "sleep"
    /\ sleepEntry' = [begun |-> TRUE, pinSBC |-> pinSBC,
                      deviceConnected |-> deviceConnected, context |-> "none"]
    /\ pc' = [pc EXCEPT !["system"] = "entering"]
    /\ UNCHANGED <<now, lastReturn, pinSBC, powerData, mounted, usbConnected,
                   initialized, hidQueue, startTime, call, lastActivityTime,
                   lastActivityCheck, deepSleepEnabled, deepSleepRequested,
                   currentTime, chip, buttonVars, bleVars, vendorVars,
                   calcVars>>

\* An enterDeepSleep that only returns when the scheduler or the task context
\* is not there.
DeepSleepStart_ReturnOnError ==
    /\ Running /\ pc["system"] = "entering"
    /\ \E contextValid \in BOOLEAN :
         /\ chip' = IF contextValid THEN "deep_sleep" ELSE chip
         /\ pc' = [pc EXCEPT !["system"] = IF contextValid THEN "entering" ELSE "idle"]
         /\ sleepEntry' = [sleepEntry EXCEPT !.context =
                               IF contextValid THEN "valid" ELSE "missing"]
    /\ UNCHANGED <<now, pinSBC, powerData, mounted, usbConnected, initialized,
                   hidQueue, startTime, call, lastReturn, lastActivityTime,
                   lastActivityCheck, deepSleepEnabled, deepSleepRequested,
                   currentTime, buttonVars, bleVars, vendorVars, calcVars>>

\* enterDeepSleep() ends: esp_restart() when the scheduler or the task context
\* is not there, esp_deep_sleep_start() otherwise.
DeepSleepStart ==
    /\ Running /\ pc["system"] = "entering"
    /\ \E contextValid \in BOOLEAN :
         /\ chip' = IF contextValid THEN "deep_sleep" ELSE "restart"
         /\ sleepEntry' = [sleepEntry EXCEPT !.context =
                               IF contextValid THEN "valid" ELSE "missing"]
    /\ UNCHANGED <<now, powerVars, lastActivityTime, lastActivityCheck,
                   deepSleepEnabled, deepSleepRequested, currentTime,
                   buttonVars, bleVars, vendorVars, calcVars>>

(***************************************************************************)
(* The power sequencer with its four callers, the wired host and the clock *)
(***************************************************************************)
NextPower ==
    \/ Tick
    \/ HostMount
    \/ HostUnmount
    \/ USBUpdate
    \/ PowerUpdate
    \/ PowerCheck
    \/ SetupEnd
    \/ PowerCommand
    \/ ShortPress
    \/ Sequencer
SpecPower == Init /\ [][NextPower]_vars

(***************************************************************************)
(* The system task (button, watchdog, deep sleep) with the BLE link, the   *)
(* power task, the wired host and the clock                                *)
(***************************************************************************)
NextSleep ==
    \/ Tick
    \/ Hold
    \/ HostMount
    \/ HostUnmount
    \/ USBUpdate
    \/ PowerUpdate
    \/ PowerCheck
    \/ Sequencer
    \/ OnConnect
    \/ OnDisconnect
    \/ ButtonPress
    \/ ButtonRelease
    \/ SystemCheckButton
    \/ SystemWatchdogRead
    \/ SystemWatchdogCheck
    \/ SystemActOnRequest
    \/ EnterDeepSleep
    \/ DeepSleepStart
SpecSleep == Init /\ [][NextSleep]_vars

(***************************************************************************)
(* The BLE task with a client that writes at any rate                      *)
(***************************************************************************)
NextCommand ==
    \/ Tick \/ HostMount \/ HostUnmount \/ USBUpdate \/ PowerUpdate \/ PowerCheck
    \/ OnConnect \/ ClientWritesPower \/ ProcessCommand
    \/ Sequencer \/ BleReply
SpecCommand == Init /\ [][NextCommand]_vars

NextText == OnConnect \/ ClientWritesText \/ ProcessCommand \/ USBUpdate
SpecText == Init /\ [][NextText]_vars

NextBLE ==
    \/ OnConnect
    \/ OnDisconnect
    \/ ClientWrites
    \/ ProcessCommand
SpecBLE == Init /\ [][NextBLE]_vars

(***************************************************************************)
(* Claims about the power sequencer (checked under SpecPower)              *)
(***************************************************************************)
\* The request of task t has made its admission check and has not returned.
Checked(t) == call[t].kind = "on" /\ pc[t] \in SequencerPcs \ {"on_check"}

\* C1: a power-on request whose admission check reads a published battery
\* percentage below 5 never drives the SBC power line HIGH: it goes from the
\* check to its return without the HIGH write, whatever task makes it
\* (handleCommand for POWER_ON, checkPowerButton for a short press, setup()
\* after a wake by the button).
C1_LowBatteryNeverDrivesHigh ==
    /\ \A t \in Tasks :
          (Checked(t) /\ call[t].percentage < BATTERY_MIN_PERCENTAGE)
             => (pc[t] = "on_admit" /\ ~call[t].canPower /\ ~call[t].drove)
    /\ (lastReturn.kind = "on" /\ lastReturn.percentage < BATTERY_MIN_PERCENTAGE)
          => ~lastReturn.drove

C1_Witness ==
    /\ lastReturn.kind = "on"
    /\ lastReturn.percentage = BATTERY_MIN_PERCENTAGE - 1
    /\ ~lastReturn.drove
    /\ ~lastReturn.line

\* C2: every power-off request leaves the SBC power line LOW when it returns,
\* whether the host went away or the wait timed out, and whether or not the
\* system-power key could be queued.
C2_PowerOffLeavesLineLow ==
    lastReturn.kind = "off" => ~lastReturn.line

C2_Witness ==
    /\ lastReturn.kind = "off"
    /\ lastReturn.keySent
    /\ lastReturn.hostStayed
    /\ ~lastReturn.line

\* C3: an admitted power-on request that drove the line HIGH and did not see
\* the host enumerate within USB_CONNECTION_TIMEOUT returns with the line LOW;
\* it returns with the line HIGH only if it observed usbConnected.
C3_PowerOnNeedsAcknowledgement ==
    (lastReturn.kind = "on" /\ lastReturn.drove)
       => /\ lastReturn.line => lastReturn.ack
          /\ (lastReturn.waitedOut /\ ~lastReturn.ack) => ~lastReturn.line

C3_Witness ==
    /\ lastReturn.kind = "on"
    /\ lastReturn.drove
    /\ lastReturn.waitedOut
    /\ ~lastReturn.ack
    /\ ~lastReturn.line

(***************************************************************************)
(* Claims about the sleep watchdog (checked under SpecSleep)               *)
(***************************************************************************)
\* C4: the device never begins the deep-sleep transition while the SBC power
\* line is HIGH or a BLE client is connected, under any interleaving of the
\* system task with the other tasks and the BLE callbacks.
C4_NoSleepWhileBlocked ==
    sleepEntry.begun => (~sleepEntry.pinSBC /\ ~sleepEntry.deviceConnected)

\* C5: with the watchdog enabled, no blocking condition and no activity since
\* the check read the clock, a periodic check latches a sleep request when the
\* time since the last activity is at least DEEP_SLEEP_WATCHDOG_TIMEOUT_MS, and
\* no check latches one while it is less.
C5_WatchdogLatchesAtTimeout ==
    [][ ( /\ pc["system"] = "compare" /\ pc'["system"] = "act"
          /\ deepSleepEnabled
          /\ shouldEnterDeepSleep
          /\ lastActivityTime <= currentTime )
        => /\ deepSleepRequested' =>
                 currentTime - lastActivityTime >= DEEP_SLEEP_WATCHDOG_TIMEOUT_MS
           /\ ( /\ currentTime - lastActivityCheck >= DEEP_SLEEP_ACTIVITY_RESET_INTERVAL_MS
                /\ currentTime - lastActivityTime >= DEEP_SLEEP_WATCHDOG_TIMEOUT_MS )
                 => deepSleepRequested' ]_vars

C5_Witness ==
    /\ pc["system"] = "act"
    /\ deepSleepRequested
    /\ deepSleepEnabled
    /\ currentTime - lastActivityTime = DEEP_SLEEP_WATCHDOG_TIMEOUT_MS
    /\ shouldEnterDeepSleep

(***************************************************************************)
(* Claims about the text command queue (checked under SpecBLE)             *)
(***************************************************************************)
\* C6: every text command frame written to the BLE characteristic gets exactly
\* one reply, for any sequence and rate of writes: no frame of a valid length
\* is lost on the way to the handler, and no handled frame is answered twice.
C6_EveryFrameAnswered ==
    /\ lastWrite # "dropped"
    /\ lastHandled.replies <= 1

(***************************************************************************)
(* Claims about the text power commands (checked under SpecCommand)        *)
(***************************************************************************)
\* C11: a text POWER_ON command whose power-on request was denied admission
\* because the battery percentage it read is below BATTERY_MIN_PERCENTAGE is
\* answered with the failure token "0".
C11_DeniedPowerOnAnsweredZero ==
    ( /\ lastHandled.command = "POWER_ON" /\ lastHandled.token # ""
      /\ lastReturn.kind = "on"
      /\ lastReturn.percentage < BATTERY_MIN_PERCENTAGE
      /\ ~lastReturn.drove )
       => lastHandled.token = "0"

\* C12: a POWER_OFF command handled while the SBC power line is LOW completes
\* without queueing the system-power key for a host that presents as
\* connected and without waiting out the host handshake, and is answered with
\* the success token "1".
C12_PowerOffWhenOffIsFast ==
    ( /\ lastHandled.command = "POWER_OFF" /\ lastHandled.token # ""
      /\ ~lastHandled.lineBefore
      /\ lastReturn.kind = "off" )
       => /\ lastHandled.hostBefore =>
                (~lastReturn.keySent /\ ~lastReturn.hostStayed)
          /\ lastHandled.token = "1"

(***************************************************************************)
(* Claims about the text parser and the data commands (under SpecText)     *)
(***************************************************************************)
Handled == lastHandled.command # "none"
HandledMessage == parseCommand(lastHandled.text)

\* C13: the text HID_MOUSE_MOVE:10:-5 is dispatched as a mouse move with
\* x = 10 and y = -5 (sendMouseMove is called with them), and the reply is
\* "1" exactly when the mouse-move message was appended to the HID queue.
MouseMoveColons == <<"HID_MOUSE_MOVE", ":", "10", ":", "-5">>
C13_MouseMoveWithColons ==
    (Handled /\ lastHandled.text = MouseMoveColons)
       => /\ lastHandled.command = "HID_MOUSE_MOVE"
          /\ lastHandled.called
          /\ lastHandled.token = "1" <=> lastHandled.hid # NoHID
          /\ lastHandled.hid # NoHID =>
                (lastHandled.hid.x = 10 /\ lastHandled.hid.y = 0 - 5)

\* The first colon-delimited segment of a text: what precedes its first ':'.
RECURSIVE FirstSegment(_)
FirstSegment(text) ==
    IF text = <<>> \/ Head(text) = ":" THEN <<>>
    ELSE <<Head(text)>> \o FirstSegment(Tail(text))

\* C14: a text frame is dispatched as command K only if its first
\* colon-delimited segment, after the trailing white space of the frame is
\* trimmed, is exactly the keyword K; every other frame gets the fixed
\* unknown-command text and executes no command.
C14_DispatchOnlyOnExactKeyword ==
    Handled =>
       LET segment == FirstSegment(trimTrailing(lastHandled.text))
           exact == Len(segment) = 1 /\ segment[1] \in commandMap
       IN /\ lastHandled.command \in commandMap =>
                segment = <<lastHandled.command>>
          /\ ~exact => /\ lastHandled.command = "UNKNOWN"
                       /\ lastHandled.token = "unknown"
                       /\ ~lastHandled.called
                       /\ lastHandled.hid = NoHID

\* C15: a frame of a command that takes data fields, carrying fewer fields
\* than the command requires, is answered "0" and performs no part of the
\* command: no USBManager::send* is called, nothing joins the HID queue.
C15_TooFewFieldsRefused ==
    ( /\ Handled /\ lastHandled.command \in DataCommands
      /\ HandledMessage.dataCount - 1 <
            (IF lastHandled.command \in {"HID_MOUSE_MOVE", "HID_MOUSE_SCROLL",
                 "HID_GAMEPAD_RIGHT_AXIS", "HID_GAMEPAD_LEFT_AXIS"} THEN 2 ELSE 1) )
       => /\ lastHandled.token = "0"
          /\ ~lastHandled.called
          /\ lastHandled.hid = NoHID

C15_Witness ==
    /\ lastHandled.text = <<"HID_MOUSE_MOVE", ":", "10">>
    /\ lastHandled.command = "HID_MOUSE_MOVE"
    /\ initialized /\ deviceConnected
    /\ lastHandled.token = "0" /\ lastHandled.replies = 1
    /\ ~lastHandled.called


(***************************************************************************)
(* BLEManager::sendResponse: a reply longer than one notification is cut   *)
(* into packets.  A reply is the sequence of its bytes (1..255, strlen     *)
(* ends it at the first 0).                                                *)
(***************************************************************************)
maxPayloadSize(mtu) == IF mtu > 3 THEN mtu - 3 ELSE 20

MAX_BLE_PACKET_SIZE_Uncapped(mtu) == maxPayloadSize(mtu)

MAX_BLE_PACKET_SIZE(mtu) ==
    IF maxPayloadSize(mtu) > 160 THEN 160 ELSE maxPayloadSize(mtu)

\* The while loop of sendResponse from offset on: strncpy of chunkSize bytes,
\* setValue, notify, offset += chunkSize.
RECURSIVE packetLoop(_, _, _)
packetLoop(response, offset, size) ==
    IF offset < Len(response)
    THEN LET remainingBytes == Len(response) - offset
             chunkSize == IF remainingBytes > size THEN size ELSE remainingBytes
         IN <<SubSeq(response, offset + 1, offset + chunkSize)>>
                \o packetLoop(response, offset + chunkSize, size)
    ELSE <<>>

\* The values notified for one reply, in order.
responsePackets(response, mtu) ==
    IF Len(response) <= MAX_BLE_PACKET_SIZE(mtu)
    THEN <<response>>
    ELSE packetLoop(response, 0, MAX_BLE_PACKET_SIZE(mtu))

\* getPeerMTU of a connected client: the default of 23, the largest of 517,
\* and values on both sides of the 160-byte limit.
PeerMTUs == {23, 24, 50, 100, 162, 163, 164, 517}

\* The replies handleCommand builds: the tokens, the info lines, the help text.
ResponseBytes(length, seed) ==
    [i \in 1..length |-> ((i * 31 + seed) % 255) + 1]

ResponseLengths(mtu) ==
    {n \in {k * MAX_BLE_PACKET_SIZE(mtu) + d : k \in 0..MaxChunks, d \in {-1, 0, 1}} :
        n >= 0}

Responses(mtu) ==
    {ResponseBytes(n, seed) : n \in ResponseLengths(mtu), seed \in {0, 7}}

\* One call of sendResponse by the BLE task.
SendResponse ==
    /\ Running
    /\ \E mtu \in PeerMTUs :
         \E response \in Responses(mtu) :
            notified' = [called |-> TRUE, sent |-> deviceConnected,
                         response |-> response, mtu |-> mtu,
                         packets |-> IF deviceConnected
                                     THEN responsePackets(response, mtu)
                                     ELSE <<>>]
    /\ UNCHANGED <<now, powerVars, sleepVars, buttonVars, bleVars, vendorVars,
                   gauge, snapshot, auxVars>>

NextChunk == OnConnect \/ OnDisconnect \/ SendResponse

SpecChunk == Init /\ [][NextChunk]_vars

RECURSIVE Concatenation(_)
Concatenation(packets) ==
    IF packets = <<>> THEN <<>>
    ELSE Head(packets) \o Concatenation(Tail(packets))

SizeCap(mtu) == IF mtu - 3 < 160 THEN mtu - 3 ELSE 160

\* C16: a reply longer than the size cap min(MTU - 3, 160) is notified as
\* packets that concatenate to the reply, each non-empty and none longer than
\* the cap; a reply no longer than the cap is one write of the reply itself.
C16_ChunksRebuildResponse ==
    notified.sent =>
        IF Len(notified.response) > SizeCap(notified.mtu)
        THEN /\ Concatenation(notified.packets) = notified.response
             /\ \A i \in 1..Len(notified.packets) :
                   /\ Len(notified.packets[i]) > 0
                   /\ Len(notified.packets[i]) <= SizeCap(notified.mtu)
        ELSE notified.packets = <<notified.response>>

C16_Witness ==
    /\ notified.sent
    /\ notified.mtu = 517
    /\ Len(notified.response) = 321
    /\ Len(notified.packets) = 3
    /\ Len(notified.packets[3]) = 1

(***************************************************************************)
(* PowerManager::calculateBatteryPercentage.  Voltages are in mV, currents *)
(* in mA and percentages in units of 1/PercentScale %, in which every      *)
(* interpolation over the table below is exact for whole mV.               *)
(***************************************************************************)
PercentScale == 300

voltagePoints == <<3000, 3300, 3500, 3600, 3700, 3800, 3900, 4000, 4100, 4200>>
percentagePoints == <<0, 5, 15, 25, 40, 60, 75, 85, 95, 100>>
numPoints == Len(voltagePoints)

\* The for loop over the table from index i on: the first interval that holds
\* voltage and the percentage interpolated in it.
RECURSIVE interpolate(_, _)
interpolate(voltage, i) ==
    IF i > numPoints - 1 THEN [found |-> FALSE, percentage |-> 0]
    ELSE IF voltage >= voltagePoints[i] /\ voltage <= voltagePoints[i + 1]
    THEN [found |-> TRUE,
          percentage |->
              PercentScale * percentagePoints[i]
              + ((voltage - voltagePoints[i]) * PercentScale
                     * (percentagePoints[i + 1] - percentagePoints[i]))
                \div (voltagePoints[i + 1] - voltagePoints[i])]
    ELSE interpolate(voltage, i + 1)

\* estimatedSag = abs(current) * 0.1f, in mV for a current in mA.
estimatedSag(current) == (IF current < 0 THEN -current ELSE current) \div 10

calculateBatteryPercentage(current, voltage) ==
    IF voltage < 3000 THEN 0
    ELSE IF voltage >= 4200 THEN 100 * PercentScale
    ELSE LET basePercentage == interpolate(voltage, 1).percentage
             compensated == interpolate(voltage + estimatedSag(current), 1)
             voltageSagCompensation ==
                 IF current < -500 /\ compensated.found
                 THEN compensated.percentage - basePercentage
                 ELSE 0
             finalPercentage == basePercentage + voltageSagCompensation
         IN IF finalPercentage < 0 THEN 0
            ELSE IF finalPercentage > 100 * PercentScale THEN 100 * PercentScale
            ELSE finalPercentage

\* Bus voltages of the battery channel, every 10 mV from 2.9 V to 4.3 V.
Voltages == {2900 + 10 * k : k \in 0..140}

\* Battery currents: charging, idle, at the compensation threshold of -0.5 A,
\* and two discharging currents of whole amperes (abs gives the same value
\* whether the build resolves it to the float or to the int overload).
Currents == {1000, 0, -500, -1000, -2000}

\* readChannels turns one reading of the battery channel into a percentage.
ReadBattery ==
    /\ Running
    /\ \E voltage \in Voltages, current \in Currents :
          gauge' = [read |-> TRUE, voltage |-> voltage, current |-> current,
                    percentage |-> calculateBatteryPercentage(current, voltage)]
    /\ UNCHANGED <<now, powerVars, sleepVars, buttonVars, bleVars, vendorVars,
                   notified, snapshot, auxVars>>

NextGauge == ReadBattery

SpecGauge == Init /\ [][NextGauge]_vars

\* C17: at every battery current the percentage is 0 below 3.0 V, 100 at or
\* above 4.2 V, and between the two it never falls when the voltage rises.
C17_PercentageMonotonic ==
    gauge.read =>
        /\ gauge.voltage < 3000 => gauge.percentage = 0
        /\ gauge.voltage >= 4200 => gauge.percentage = 100 * PercentScale
        /\ (gauge.voltage >= 3000 /\ gauge.voltage < 4200) =>
               \A lower \in Voltages :
                   (lower >= 3000 /\ lower <= gauge.voltage) =>
                       calculateBatteryPercentage(gauge.current, lower)
                           <= gauge.percentage

\* The two range ends of C17 alone.
C17_RangeEnds ==
    gauge.read =>
        /\ gauge.voltage < 3000 => gauge.percentage = 0
        /\ gauge.voltage >= 4200 => gauge.percentage = 100 * PercentScale

\* Monotonic for every current that is not compensated.
C17_MonotonicWithoutSag ==
    (gauge.read /\ gauge.current >= -500
        /\ gauge.voltage >= 3000 /\ gauge.voltage < 4200) =>
        \A lower \in Voltages :
            (lower >= 3000 /\ lower <= gauge.voltage) =>
                calculateBatteryPercentage(gauge.current, lower) <= gauge.percentage

(***************************************************************************)
(* The published power snapshot                                            *)
(***************************************************************************)
SavingModeMatches(data) ==
    data.powerSavingMode <=>
        (~data.charger.connected /\ data.battery.percentage <= BATTERY_SAVING_MODE)

\* C18: in every state of the published snapshot, from initialisation on,
\* powerSavingMode is true exactly when the charger is disconnected and the
\* battery percentage is at most BATTERY_SAVING_MODE.
C18_SavingModeIffLowAndUnplugged == SavingModeMatches(powerData)

\* Every snapshot other than the one powerData is constructed with satisfies it.
C18_HoldsOncePublished ==
    powerData # InitialPowerData => SavingModeMatches(powerData)

\* PowerManager::getPowerInfo, called for POWER_INFO: one read of the snapshot.
GetPowerInfo ==
    /\ Running
    /\ \E lockTaken \in BOOLEAN, garbage \in GarbageSnapshots :
          snapshot' = [read |-> TRUE, lockTaken |-> lockTaken,
                       data |-> getPowerData(lockTaken, garbage)]
    /\ UNCHANGED <<now, powerVars, sleepVars, buttonVars, bleVars, vendorVars,
                   notified, gauge, auxVars>>

NextSnapshot == Tick \/ PowerUpdate \/ PowerCheck \/ GetPowerInfo

SpecSnapshot == Init /\ [][NextSnapshot]_vars

\* C19: when the lock is not obtained within its wait, a read of the snapshot
\* returns the zero-valued snapshot (readings zero, flags false).
C19_FailedLockReadsZero ==
    (snapshot.read /\ ~snapshot.lockTaken) => snapshot.data = InitialPowerData

\* With the lock, a read returns the published snapshot.
C19_LockedReadIsPublished ==
    (snapshot.read /\ snapshot.lockTaken) => snapshot.data \in
        {setPowerData(sample[1], sample[2], TRUE) : sample \in Samples}
            \cup {InitialPowerData}

(***************************************************************************)
(* Activity: what resets SystemManager::lastActivityTime                   *)
(***************************************************************************)
\* The binary transport while the clock runs.
NextActivity == Tick \/ HostWrites

SpecActivity == Init /\ [][NextActivity]_vars

\* The text transport while the clock runs.
NextTextClock == Tick \/ NextText

SpecTextClock == Init /\ [][NextTextClock]_vars

\* This step served a binary request: PING, GET_STATUS or GET_INFO staged
\* its response.
BinaryRequestServed ==
    /\ hostOps' # hostOps
    /\ hostOps'[4].op = "set"
    /\ hostOps'[4].staged > 0

\* This step took a text frame in for dispatch.
TextCommandTaken == Len(commandQueue') > Len(commandQueue)

\* C20: every command on either transport, a text command as well as a binary
\* request (PING, GET_STATUS, GET_INFO), resets the last-activity timestamp
\* the sleep watchdog uses.
C20_EveryCommandResetsActivity ==
    [][ /\ BinaryRequestServed => lastActivityTime' = now'
        /\ TextCommandTaken => lastActivityTime' = now' ]_vars

\* The text transport alone does.
C20_TextCommandResetsActivity ==
    [][ TextCommandTaken => lastActivityTime' = now' ]_vars

\* No binary request touches the timestamp.
C20_BinaryRequestLeavesActivity ==
    [][ BinaryRequestServed => lastActivityTime' = lastActivityTime ]_vars

(***************************************************************************)
(* Startup: setup() runs PowerManager::begin, USBManager::begin,           *)
(* BLEManager::begin, SystemManager::begin and StatusManager::begin, then  *)
(* creates the tasks.                                                      *)
(***************************************************************************)
\* failed = 0: every xQueueCreate and xSemaphoreCreateMutex of the begin()
\* functions succeeds; failed = i: the i-th of StartupOrder returns NULL, its
\* begin() returns false and setup() calls esp_restart().
SetupBegin ==
    /\ chip = "running" /\ pc["main"] = "begin"
    /\ \E failed \in 0..Len(StartupOrder) :
          IF failed = 0
          THEN /\ boot' = [boot EXCEPT !.created = StartupResources]
               /\ pc' = [pc EXCEPT !["main"] = "setup"]
               /\ chip' = chip
          ELSE /\ boot' = [boot EXCEPT !.created =
                                {StartupOrder[i] : i \in 1..(failed - 1)}]
               /\ chip' = "restart"
               /\ pc' = [pc EXCEPT !["main"] = "restart"]
    /\ UNCHANGED <<now, pinSBC, powerData, mounted, usbConnected, initialized,
                   hidQueue, startTime, call, lastReturn, lastActivityTime,
                   lastActivityCheck, deepSleepEnabled, deepSleepRequested,
                   currentTime, sleepEntry, buttonVars, bleVars, vendorVars,
                   notified, gauge, snapshot, telemetry, cell,
                   unsteady, blockedAt, lateVars>>

NextBoot ==
    \/ SetupBegin
    \/ SetupEnd
    \/ Tick
    \/ HostMount
    \/ HostUnmount
    \/ USBUpdate
    \/ PowerUpdate
    \/ PowerCheck
    \/ Sequencer

SpecBoot == InitBoot /\ [][NextBoot]_vars

\* C21: when the creation of a queue or lock a component needs fails, boot is
\* aborted and the system restarts; no task loop runs while one is missing.
C21_MissingResourceRestarts ==
    /\ (pc["main"] # "begin" /\ ~(StartupResources \subseteq boot.created))
          => chip = "restart"
    /\ (boot.usbPass # "none" /\ ~(USBResources \subseteq boot.created))
          => chip = "restart"

\* The resources of the begin() functions alone: setup() restarts.
C21_StartupFailureRestarts ==
    (pc["main"] # "begin" /\ ~(StartupResources \subseteq boot.created)) =>
        /\ chip = "restart"
        /\ \A t \in Tasks \ {"main"} : pc[t] = "idle"
        /\ boot.usbPass = "none"

(***************************************************************************)
(* Claims about entering deep sleep (checked under SpecSleep)              *)
(***************************************************************************)
\* C22: once a latched sleep request is acted on, the system enters deep sleep
\* or restarts: it restarts when the scheduler is not running or there is no
\* task context, and the system task never goes back to its loop.
C22_SleepEntryEndsInSleepOrRestart ==
    sleepEntry.begun =>
        /\ pc["system"] = "entering"
        /\ chip = "running" <=> sleepEntry.context = "none"
        /\ chip = "restart" <=> sleepEntry.context = "missing"
        /\ chip = "deep_sleep" <=> sleepEntry.context = "valid"

C22_Witness ==
    /\ sleepEntry.begun
    /\ sleepEntry.context = "missing"
    /\ chip = "restart"

(***************************************************************************)
(* PowerManager::readChannels and the two time estimates.  Voltages are in *)
(* mV, currents in mA, percentages in units of 1/PercentScale %.  The      *)
(* (uint32_t) cast truncates; every estimate here is far below 2^32.       *)
(***************************************************************************)
\* MIN_BATTERY_CHARGING_VOLTAGE (4.0 V) in mV.
MinChargingVoltage == 4000
\* The 0.01 A below which a current does not count as charging, in mA.
MinChargingCurrent == 10

\* (uint32_t)(remainingPercentage / ratePerHour * 3600) with
\* ratePerHour = current * 1000 * 100 / BATTERY_CAPACITY_MAH, current in A.
\* The factor 3600 * BATTERY_CAPACITY_MAH / (1000 * 100) is taken per unit of
\* percentage and per mA first, which is a whole number.
secondsAtRate(remainingPercentage, current) ==
    (remainingPercentage * ((BATTERY_CAPACITY_MAH * 3600) \div (100 * PercentScale)))
        \div current

\* A discharge estimate that does not stop at the empty floor.
calculateEstimatedTimeToFullyDischarge_NoFloor(batteryCurrent, percentage) ==
    IF batteryCurrent >= 0 THEN 0
    ELSE secondsAtRate(percentage, -batteryCurrent)

calculateEstimatedTimeToFullyDischarge(batteryCurrent, percentage) ==
    IF batteryCurrent >= 0 THEN 0
    ELSE IF percentage <= 1 * PercentScale THEN 0
    ELSE secondsAtRate(percentage - 1 * PercentScale, -batteryCurrent)

\* A charge estimate that projects from what the charger supplies.
calculateEstimatedTimeToFullyCharge_Raw(chargerCurrent, chargerVoltage, batteryCurrent, percentage) ==
    IF chargerVoltage < MinChargingVoltage THEN 0
    ELSE IF chargerCurrent <= MinChargingCurrent THEN 0
    ELSE IF percentage >= 99 * PercentScale THEN 0
    ELSE secondsAtRate(100 * PercentScale - percentage, chargerCurrent)

calculateEstimatedTimeToFullyCharge(chargerCurrent, chargerVoltage, batteryCurrent, percentage) ==
    IF chargerVoltage < MinChargingVoltage THEN 0
    ELSE IF chargerCurrent <= MinChargingCurrent THEN 0
    ELSE IF percentage >= 99 * PercentScale THEN 0
    ELSE LET effectiveChargingCurrent ==
                 IF batteryCurrent >= 0 THEN batteryCurrent
                 ELSE chargerCurrent + batteryCurrent
         IN IF batteryCurrent < 0 /\ effectiveChargingCurrent <= MinChargingCurrent
            THEN 0
            ELSE IF effectiveChargingCurrent <= 0 THEN 0
            ELSE secondsAtRate(100 * PercentScale - percentage,
                               effectiveChargingCurrent)

\* readChannels: the battery and charger data built from one reading of the
\* two channels.
readChannels(batteryVoltage, batteryCurrent, chargerVoltage, chargerCurrent) ==
    LET batteryPercentage == calculateBatteryPercentage(batteryCurrent, batteryVoltage)
    IN [read |-> TRUE,
        battery |-> [voltage |-> batteryVoltage, current |-> batteryCurrent,
                     percentage |-> batteryPercentage,
                     toFullyDischargeS |->
                         calculateEstimatedTimeToFullyDischarge(
                             batteryCurrent, batteryPercentage)],
        charger |-> [voltage |-> chargerVoltage, current |-> chargerCurrent,
                     connected |-> chargerVoltage >= MinChargingVoltage,
                     toFullyChargeS |->
                         calculateEstimatedTimeToFullyCharge(
                             chargerCurrent, chargerVoltage, batteryCurrent,
                             batteryPercentage)]]

\* Readings of the two channels: battery voltages below, at and above the
\* empty floor and across the table, battery currents of both signs, charger
\* voltages around MIN_BATTERY_CHARGING_VOLTAGE, charger currents around
\* 0.01 A and around the loads.
BatteryVoltages == {2900, 3040, 3060, 3700, 4190, 4200}
BatteryCurrents == {-600, -200, -1, 0, 500}
ChargerVoltages == {3990, 4000, 5000}
ChargerCurrents == {0, 10, 11, 200, 1000}

ReadChannels ==
    /\ Running
    /\ \E batteryVoltage \in BatteryVoltages, batteryCurrent \in BatteryCurrents,
          chargerVoltage \in ChargerVoltages, chargerCurrent \in ChargerCurrents :
          telemetry' = readChannels(batteryVoltage, batteryCurrent,
                                    chargerVoltage, chargerCurrent)
    /\ UNCHANGED <<now, powerVars, sleepVars, buttonVars, bleVars, vendorVars,
                   notified, gauge, snapshot, boot, cell,
                   unsteady, blockedAt, lateVars>>

NextTelemetry == ReadChannels

SpecTelemetry == Init /\ [][NextTelemetry]_vars

\* seconds is the whole number of seconds in remaining % at |current| mA:
\* remaining / (|current| * 1000 * 100 / 4500) * 3600, cut to an integer.
\* With remaining in units of 1/300 % and the current in mA that is
\* remaining * 540 / current.
IsProjection(seconds, remaining, current) ==
    /\ current > 0
    /\ seconds * current <= remaining * 540
    /\ remaining * 540 < (seconds + 1) * current

\* C23: the discharge estimate is 0 when the battery current is >= 0 or the
\* percentage is at most 1 %, and otherwise the linear projection of
\* (percentage - 1) at |current| * 1000 * 100 / 4500 % per hour; at 3.7 V and
\* -0.2 A the percentage is 40 and the estimate is positive.
C23_DischargeEstimate ==
    telemetry.read =>
        LET battery == telemetry.battery
        IN /\ (battery.current >= 0 \/ battery.percentage <= PercentScale)
                 => battery.toFullyDischargeS = 0
           /\ (battery.current < 0 /\ battery.percentage > PercentScale)
                 => IsProjection(battery.toFullyDischargeS,
                                 battery.percentage - PercentScale,
                                 -battery.current)
           /\ (battery.voltage = 3700 /\ battery.current = -200)
                 => /\ battery.percentage = 40 * PercentScale
                    /\ battery.toFullyDischargeS > 0

C23_Witness ==
    /\ telemetry.read
    /\ telemetry.battery.voltage = 3700
    /\ telemetry.battery.current = -200
    /\ telemetry.battery.toFullyDischargeS = 31590

\* C24: with a negative battery current while the charger supplies current,
\* the charge estimate is the projection from the net current (charger
\* current + battery current), not from the charger current, and is 0
\* whenever the net current is not positive.
C24_ChargeEstimateFromNetCurrent ==
    (telemetry.read /\ telemetry.battery.current < 0
        /\ telemetry.charger.current > 0) =>
        LET charger == telemetry.charger
            net == charger.current + telemetry.battery.current
            remaining == 100 * PercentScale - telemetry.battery.percentage
        IN /\ net <= 0 => charger.toFullyChargeS = 0
           /\ charger.toFullyChargeS # 0 =>
                  IsProjection(charger.toFullyChargeS, remaining, net)
           /\ (/\ charger.voltage >= MinChargingVoltage
               /\ charger.current > MinChargingCurrent
               /\ net > MinChargingCurrent
               /\ telemetry.battery.percentage < 99 * PercentScale) =>
                  IsProjection(charger.toFullyChargeS, remaining, net)

C24_Witness ==
    /\ telemetry.read
    /\ telemetry.battery.current = -600
    /\ telemetry.charger.current = 1000
    /\ telemetry.battery.voltage = 3700
    /\ telemetry.charger.toFullyChargeS = 19440

(***************************************************************************)
(* Power requests of two tasks at once: the BLE task's commands against    *)
(* the consistency check of the power task                                 *)
(***************************************************************************)
NextRace ==
    \/ Tick
    \/ HostMount
    \/ USBUpdate
    \/ PowerUpdate
    \/ PowerCheckWithin(MaxRacing)
    \/ PowerCommandWithin(MaxRacing)
    \/ Sequencer

SpecRace == Init /\ [][NextRace]_vars

\* C25: power requests made by different tasks at the same time leave the
\* sequencer consistent: a power-on request that returns having seen the
\* host's acknowledgement returns with the line HIGH, and at most one
\* handshake is in progress at a time.
C25_ConcurrentRequestsConsistent ==
    /\ (lastReturn.kind = "on" /\ lastReturn.ack) => lastReturn.line
    /\ Cardinality({t \in Tasks : Inside(t)}) <= 1

\* The first half alone.
C25_AcknowledgedOnReturnsHigh ==
    (lastReturn.kind = "on" /\ lastReturn.ack) => lastReturn.line

(***************************************************************************)
(* Claims about the consistency check of PowerManager::update (SpecPower)  *)
(***************************************************************************)
\* C26: after every update in which the published battery percentage is
\* below BATTERY_MIN_PERCENTAGE and the line is seen HIGH, the power-off path
\* has run: the update does not return without it, and the line is LOW when
\* it returns.
C26_LowBatteryUpdateSwitchesOff ==
    [][ /\ (/\ pc["power"] = "check"
            /\ powerData.battery.percentage < BATTERY_MIN_PERCENTAGE
            /\ pinSBC) => pc'["power"] # "idle"
        /\ (pc["power"] = "off_write" /\ pc'["power"] = "idle") => ~pinSBC'
      ]_vars

\* The second half alone: an update that ran the power-off path returns with
\* the line LOW.
C26_OffPathLeavesLow ==
    [][ (pc["power"] = "off_write" /\ pc'["power"] = "idle") => ~pinSBC' ]_vars

(***************************************************************************)
(* One failed read or one timed-out lock in PowerManager::update           *)
(***************************************************************************)
\* PowerManager::readBusVoltage in mV: 0 when the bus transfer fails, else the
\* register without its three low bits, 8 mV a step.
readBusVoltage(transferred, rawVoltage) ==
    IF transferred THEN (rawVoltage \div 8) * 8 ELSE 0

\* Bus registers of the battery channel: 3.0 V, 3.6 V and 4.0 V, whose
\* percentages are the whole numbers 0, 25 and 85.
BatteryRegisters == {3000, 3600, 4000}

\* PowerManager::update up to setPowerData: the battery channel is read and
\* published.  cell keeps what a good read gives and counts the failed
\* transfers and lock timeouts.
PowerUpdateRead ==
    /\ Running /\ pc["power"] = "idle"
    /\ \E rawVoltage \in BatteryRegisters, transferred, lockTaken \in BOOLEAN :
         LET failed == (IF transferred THEN 0 ELSE 1) + (IF lockTaken THEN 0 ELSE 1)
             percentage ==
                 calculateBatteryPercentage(0, readBusVoltage(transferred, rawVoltage))
         IN /\ cell.failures + failed <= MaxFailures
            /\ powerData' = setPowerData(percentage \div PercentScale, FALSE, lockTaken)
            /\ cell' = [percentage |->
                           calculateBatteryPercentage(0, readBusVoltage(TRUE, rawVoltage)),
                        failures |-> cell.failures + failed,
                        kinds |-> cell.kinds
                                    \cup (IF transferred THEN {} ELSE {"bus"})
                                    \cup (IF lockTaken THEN {} ELSE {"lock"})]
    /\ pc' = [pc EXCEPT !["power"] = "check"]
    /\ UNCHANGED <<now, pinSBC, mounted, usbConnected, initialized, hidQueue,
                   startTime, call, lastReturn, sleepVars, buttonVars, bleVars,
                   vendorVars, notified, gauge, snapshot, boot, telemetry,
                   unsteady, blockedAt, lateVars>>

\* The consistency check of PowerManager::update, counting a timed-out lock
\* of getPowerData.
PowerCheckRead ==
    /\ Running /\ pc["power"] = "check"
    /\ \E lockTaken \in BOOLEAN, garbage \in GarbageSnapshots :
         /\ cell.failures + (IF lockTaken THEN 0 ELSE 1) <= MaxFailures
         /\ cell' = [cell EXCEPT !.failures = @ + (IF lockTaken THEN 0 ELSE 1),
                                 !.kinds = @ \cup (IF lockTaken THEN {} ELSE {"lock"})]
         /\ IF ~shouldSBCBePoweredOn(lockTaken, garbage) /\ isSBCPowerOn
            THEN StartCallWithin("power", FALSE, "idle", MaxActive)
            ELSE /\ pc' = [pc EXCEPT !["power"] = "idle"]
                 /\ UNCHANGED <<call, lastReturn>>
    /\ UNCHANGED <<now, pinSBC, powerData, mounted, usbConnected,
                   initialized, hidQueue, startTime, sleepVars, buttonVars,
                   bleVars, vendorVars, notified, gauge, snapshot, boot,
                   telemetry, unsteady, blockedAt, lateVars>>

NextTransient ==
    \/ Tick
    \/ HostMount
    \/ HostUnmount
    \/ USBUpdate
    \/ PowerUpdateRead
    \/ PowerCheckRead
    \/ PowerCommand
    \/ Sequencer

SpecTransient == Init /\ [][NextTransient]_vars

\* The consistency check starts the power-off path.
SwitchedOffByCheck ==
    pc["power"] = "check" /\ pinSBC /\ pc'["power"] = "off_key"

\* C27: with at most one failed bus read of the battery voltage or one
\* timed-out snapshot lock, the consistency check does not switch a powered
\* SBC off while the battery's real percentage is at or above the minimum.
C27_OneFailureKeepsPower ==
    [][ SwitchedOffByCheck =>
          cell'.percentage < BATTERY_MIN_PERCENTAGE * PercentScale ]_vars

\* Without any failure the check switches off only a battery that is below
\* the minimum.
C27_NoFailureKeepsPower ==
    [][ (SwitchedOffByCheck /\ cell'.failures = 0) =>
          cell'.percentage < BATTERY_MIN_PERCENTAGE * PercentScale ]_vars

\* The failed bus read alone: no lock timed out.
C27_FailedReadKeepsPower ==
    [][ (SwitchedOffByCheck /\ cell'.kinds = {"bus"}) =>
          cell'.percentage < BATTERY_MIN_PERCENTAGE * PercentScale ]_vars

(***************************************************************************)
(* Claims about the sleep watchdog and the activity timer (SpecSleep)      *)
(***************************************************************************)
\* C28: a sleep request is never latched when an activity notification was
\* made less than DEEP_SLEEP_WATCHDOG_TIMEOUT_MS before the latch, also when
\* another task makes it between the check reading the clock and comparing.
C28_NoLatchAfterRecentActivity ==
    [][ (~deepSleepRequested /\ deepSleepRequested') =>
          now - lastActivityTime >= DEEP_SLEEP_WATCHDOG_TIMEOUT_MS ]_vars

\* The same for the checks during which no notification was made after the
\* clock was read.
C28_NoLatchWithoutInterleaving ==
    [][ (~deepSleepRequested /\ deepSleepRequested'
           /\ lastActivityTime <= currentTime) =>
          now - lastActivityTime >= DEEP_SLEEP_WATCHDOG_TIMEOUT_MS ]_vars

(***************************************************************************)
(* The task watchdog and the handshake waits                               *)
(***************************************************************************)
\* USBManager::update, remembering the tasks whose wait loop in
\* trySetSBCPower is running while the connection flag changes.
USBUpdateFeed ==
    /\ \E created \in BOOLEAN : USBUpdatePass(created)
    /\ unsteady' = IF usbConnected' # usbConnected
                   THEN unsteady \cup {t \in Tasks : pc[t] \in {"on_wait", "off_wait"}}
                   ELSE unsteady
    /\ blockedAt' = blockedAt
    /\ UNCHANGED lateVars

NextFeed ==
    \/ Tick
    \/ HostMount
    \/ HostUnmount
    \/ USBUpdateFeed
    \/ PowerUpdate
    \/ PowerCheck
    \/ PowerCommand
    \/ ShortPress
    \/ Sequencer

SpecFeed == Init /\ [][NextFeed]_vars

\* The time the two wait loops of the trySetSBCPower call c of task t have
\* taken at least.  With the connection flag steady during the waits of t, a
\* power-on wait that ended unconnected ran to its timeout, and a power-off
\* wait that ended connected ran to its timeout.
HandshakeWaited(t, c) ==
    IF t \in unsteady THEN 0
    ELSE (IF c.waitedOut THEN USB_CONNECTION_TIMEOUT ELSE 0)
           + (IF c.hostStayed THEN USB_CONNECTION_TIMEOUT ELSE 0)

\* C29: the BLE, system and power tasks feed the task watchdog at least every
\* TASK_WATCHDOG_TIMEOUT seconds: one pass of a task loop, which feeds only
\* after its update returns, never holds that much handshake waiting.
C29_PassWaitsLessThanWatchdog ==
    \A t \in {"ble", "system", "power"} :
        HandshakeWaited(t, call[t]) < TASK_WATCHDOG_TIMEOUT * 1000

\* The power task alone, whose update only ever runs the power-off path.
C29_PowerTaskFeeds ==
    HandshakeWaited("power", call["power"]) < TASK_WATCHDOG_TIMEOUT * 1000

(***************************************************************************)
(* The activity timer under a blocking condition                           *)
(***************************************************************************)
\* updateDeepSleepWatchdog after it read the clock, remembering the time of
\* the check that finds sleep blocked and calls resetActivityTimer.
SystemWatchdogCheckBlock ==
    /\ Running /\ pc["system"] = "compare"
    /\ LET due == ElapsedAtLeast(currentTime, lastActivityCheck,
                                 DEEP_SLEEP_ACTIVITY_RESET_INTERVAL_MS)
           armed == due /\ deepSleepEnabled
       IN /\ lastActivityCheck' = IF due THEN currentTime ELSE lastActivityCheck
          /\ deepSleepRequested' =
                IF armed /\ shouldEnterDeepSleep
                         /\ WatchdogExpired(currentTime, lastActivityTime)
                THEN TRUE ELSE deepSleepRequested
          /\ lastActivityTime' =
                IF armed /\ ~shouldEnterDeepSleep THEN now ELSE lastActivityTime
          /\ blockedAt' =
                IF armed /\ ~shouldEnterDeepSleep THEN now ELSE blockedAt
    /\ pc' = [pc EXCEPT !["system"] = "act"]
    /\ UNCHANGED <<now, lastReturn, pinSBC, powerData, mounted, usbConnected,
                   initialized, hidQueue, startTime, call, deepSleepEnabled,
                   currentTime, chip, sleepEntry, buttonVars, bleVars,
                   vendorVars, notified, gauge, snapshot, boot, telemetry,
                   cell, unsteady, lateVars>>

NextBlock ==
    \/ Tick
    \/ Hold
    \/ HostMount
    \/ HostUnmount
    \/ USBUpdate
    \/ PowerUpdate
    \/ PowerCheck
    \/ Sequencer
    \/ OnConnect
    \/ OnDisconnect
    \/ ButtonPress
    \/ ButtonRelease
    \/ SystemCheckButton
    \/ SystemWatchdogRead
    \/ SystemWatchdogCheckBlock
    \/ SystemActOnRequest
    \/ EnterDeepSleep
    \/ DeepSleepStart

SpecBlock == Init /\ [][NextBlock]_vars

\* A periodic check of the enabled watchdog observes a blocking condition.
BlockObserved ==
    /\ pc["system"] = "compare" /\ pc'["system"] = "act"
    /\ ElapsedAtLeast(currentTime, lastActivityCheck,
                      DEEP_SLEEP_ACTIVITY_RESET_INTERVAL_MS)
    /\ deepSleepEnabled
    /\ (pinSBC \/ deviceConnected)

\* A sleep request is latched after some check observed a block.
LatchAfterBlock ==
    ~deepSleepRequested /\ deepSleepRequested' /\ blockedAt >= 0

\* C30: a periodic check that observes a blocking condition (line HIGH or BLE
\* client connected) resets the activity timer; after the block lifts no
\* sleep request is latched until DEEP_SLEEP_WATCHDOG_TIMEOUT_MS have passed
\* since the last check that observed the block.
C30_BlockRestartsIdleTime ==
    [][ /\ BlockObserved => lastActivityTime' = now
        /\ LatchAfterBlock => now - blockedAt >= DEEP_SLEEP_WATCHDOG_TIMEOUT_MS
      ]_vars

\* The first half alone: the check that observes the block resets the timer.
C30_BlockedCheckResetsTimer ==
    [][ BlockObserved => lastActivityTime' = now ]_vars

\* The second half for the checks during which no notification was made
\* after the clock was read.
C30_NoEarlyLatchWithoutInterleaving ==
    [][ (LatchAfterBlock /\ lastActivityTime <= currentTime) =>
          now - blockedAt >= DEEP_SLEEP_WATCHDOG_TIMEOUT_MS ]_vars

(***************************************************************************)
(* The watchdog switched off and on by text commands                       *)
(***************************************************************************)
SleepFrames == {Frame(<<"DEEP_SLEEP_ENABLE">>, 17), Frame(<<"DEEP_SLEEP_DISABLE">>, 18)}

\* A client that switches the watchdog: it writes while fewer than MaxPending
\* frames are waiting.
ClientWritesSleep ==
    /\ Len(commandQueue) < MaxPending
    /\ \E f \in SleepFrames : OnWrite(f)

\* processCommands, remembering when handleCommand called enableDeepSleep
\* on a disabled watchdog.
ProcessCommandEnable ==
    /\ ProcessCommandPass
    /\ enabledAt' =
          IF /\ parseCommand(Head(commandQueue).text).command = "DEEP_SLEEP_ENABLE"
             /\ ~deepSleepEnabled
          THEN now ELSE enabledAt
    /\ UNCHANGED <<wired, usbd, retrieved, statusVars, hostVars>>

NextEnable ==
    \/ Tick
    \/ OnConnect
    \/ OnDisconnect
    \/ ClientWritesSleep
    \/ ProcessCommandEnable
    \/ SystemCheckButton
    \/ SystemWatchdogRead
    \/ SystemWatchdogCheck
    \/ SystemActOnRequest
    \/ EnterDeepSleep
    \/ DeepSleepStart

SpecEnable == Init /\ [][NextEnable]_vars

\* This step latches a sleep request.
Latched == ~deepSleepRequested /\ deepSleepRequested'

\* C31: while the sleep watchdog is disabled no sleep request is latched;
\* after it is enabled again none is latched until
\* DEEP_SLEEP_WATCHDOG_TIMEOUT_MS have passed since the enable.
C31_DisabledNeverLatches ==
    [][ Latched =>
          /\ deepSleepEnabled
          /\ enabledAt >= 0 => now - enabledAt >= DEEP_SLEEP_WATCHDOG_TIMEOUT_MS
      ]_vars

\* The first half alone: no latch while the watchdog is disabled.
C31_NoLatchWhileDisabled ==
    [][ Latched => deepSleepEnabled ]_vars

\* The second half for the checks during which the timer was not reset after
\* the clock was read.
C31_NoEarlyLatchWithoutInterleaving ==
    [][ (Latched /\ enabledAt >= 0 /\ lastActivityTime <= currentTime) =>
          now - enabledAt >= DEEP_SLEEP_WATCHDOG_TIMEOUT_MS ]_vars

(***************************************************************************)
(* Claims about the power button and the activity timer (SpecSleep)        *)
(***************************************************************************)
\* checkPowerButton runs and takes the level read on the pin as a new state:
\* it differs from lastButtonState and POWER_BUTTON_DEBOUNCE has passed.
DebouncedEdge ==
    /\ pc["system"] = "idle" /\ pc'["system"] # "idle"
    /\ buttonDown # lastButtonState
    /\ now - lastButtonTime > POWER_BUTTON_DEBOUNCE

\* C32: every debounced edge of the power button, the release as well as the
\* press, resets the last-activity timestamp of the sleep watchdog.
C32_EveryEdgeResetsActivity ==
    [][ DebouncedEdge => lastActivityTime' = now ]_vars

\* The press alone resets it.
C32_PressResetsActivity ==
    [][ (DebouncedEdge /\ buttonDown) => lastActivityTime' = now ]_vars

\* The release leaves the timestamp as it was.
C32_ReleaseLeavesActivity ==
    [][ (DebouncedEdge /\ ~buttonDown) => lastActivityTime' = lastActivityTime ]_vars

(***************************************************************************)
(* Termination of the power handshake                                      *)
(***************************************************************************)
\* The clock while a handshake runs: the statements of trySetSBCPower take no
\* time of their own, so millis() only moves on while every task that is
\* inside it sits in a wait loop whose condition still holds.
TickPaced ==
    /\ \A t \in Tasks :
          Inside(t) => \/ Len(hidQueue) > MaxKeys
                       \/ pc[t] = "on_wait" /\ ~OnWaitOver(t)
                       \/ pc[t] = "off_wait" /\ ~OffWaitOver(t)
    /\ Tick

\* The task watchdog of esp_task_wdt_init(TASK_WATCHDOG_TIMEOUT, true): a
\* subscribed task that has not called esp_task_wdt_reset for the timeout
\* makes the chip panic and restart.  A task feeds only between two passes of
\* its loop, so a pass whose handshake has already waited that long is cut.
TaskWatchdogPanic ==
    /\ Running
    /\ \E t \in {"ble", "system", "power"} :
          /\ Inside(t)
          /\ HandshakeWaited(t, call[t]) >= TASK_WATCHDOG_TIMEOUT * 1000
    /\ chip' = "restart"
    /\ UNCHANGED <<now, powerVars, lastActivityTime, lastActivityCheck,
                   deepSleepEnabled, deepSleepRequested, currentTime,
                   sleepEntry, buttonVars, bleVars, vendorVars, calcVars>>

NextHandshake ==
    \/ TickPaced
    \/ HostMount
    \/ HostUnmount
    \/ USBUpdateFeed
    \/ PowerUpdate
    \/ PowerCheck
    \/ PowerCommand
    \/ Sequencer
    \/ TaskWatchdogPanic

\* The tasks are scheduled again and again, and millis() moves on however
\* often the host comes and goes.
SpecHandshake ==
    /\ Init /\ [][NextHandshake]_vars
    /\ WF_vars(Sequencer)
    /\ SF_vars(TickPaced)
    /\ WF_vars(USBUpdateFeed)

\* The latest time at which a request can be running and still have both of
\* its waits end before the clock of the model stops.
LastStart == MaxTime - 2 * USB_CONNECTION_TIMEOUT

\* C33: every power-on or power-off request terminates: its wait loops end on
\* the host's answer or after USB_CONNECTION_TIMEOUT, nothing cuts a started
\* transition short, and it returns after at most one timeout (power-off) or
\* two (power-on).
C33_EveryRequestReturns ==
    \A t \in {"ble", "power"} :
        (Inside(t) /\ now <= LastStart) ~> ~Inside(t)

\* Every request returns unless the task watchdog has restarted the chip.
C33_ReturnsUnlessPanic ==
    \A t \in {"ble", "power"} :
        (Inside(t) /\ now <= LastStart) ~> (~Inside(t) \/ chip = "restart")

\* A power-off request on its own, which waits in one loop only, is never cut.
C33_PowerOffNeverCut ==
    \A t \in {"ble", "power"} :
        (Inside(t) /\ call[t].kind = "off") => chip = "running"

(***************************************************************************)
(* The power-on request of setup() after a wake by the power button        *)
(***************************************************************************)
NextWake ==
    \/ Tick
    \/ HostMount
    \/ USBUpdate
    \/ PowerUpdateRead
    \/ PowerCheckRead
    \/ SetupEnd
    \/ Sequencer

SpecWake == InitWake /\ [][NextWake]_vars

\* The power-on request of setup() returns from its admission check without
\* having driven the line.
WakeRequestDenied ==
    /\ pc["main"] = "on_admit" /\ pc'["main"] = "loop"
    /\ ~pinSBC

\* C34: after a wake by the power button the power-on request at the end of
\* setup() is admitted whenever the battery is in fact at or above
\* BATTERY_MIN_PERCENTAGE, whether or not the power task has published its
\* first sample yet.
C34_WakeRequestAdmitted ==
    [][ WakeRequestDenied =>
          cell.percentage < BATTERY_MIN_PERCENTAGE * PercentScale ]_vars

\* A request whose admission check got the lock and read a published
\* percentage at or above the minimum is not denied.
C34_DeniedOnlyByAdmissionCheck ==
    [][ WakeRequestDenied => ~call["main"].canPower ]_vars

(***************************************************************************)
(* The HID queue, from the acknowledgement to the wired interface          *)
(***************************************************************************)
\* USBManager::processHIDCommands with executeHIDCommand: every message is
\* received from the queue in FIFO order and handed to executeHIDCommand, which
\* returns before touching the keyboard, mouse or gamepad when the link is not
\* connected.  hidMutex is taken by executeHIDCommand alone, so it is free.
processHIDCommands(queue, connected) == IF connected THEN queue ELSE <<>>

USBUpdateWire ==
    /\ \E created \in BOOLEAN : USBUpdatePass(created)
    /\ wired' = IF ~initialized THEN <<>>
                ELSE processHIDCommands(hidQueue, usbConnected')
    /\ UNCHANGED <<unsteady, blockedAt, enabledAt, usbd, retrieved, statusVars, hostVars>>

\* A client that sends HID commands: one that is acknowledged with 1, one
\* whose button is refused with 0, one with its key missing.
KeyFrames ==
    {Text(<<"HID_KEYBOARD_PRESS", ":", "65">>), Text(<<"HID_MOUSE_PRESS", ":", "1">>),
     Text(<<"HID_MOUSE_PRESS", ":", "9">>), Text(<<"HID_KEYBOARD_PRESS", ":">>)}
ClientWritesKeys ==
    /\ Len(commandQueue) < MaxPending
    /\ Len(hidQueue) < MaxKeys
    /\ \E f \in KeyFrames : OnWrite(f)

NextWire ==
    \/ Tick \/ HostMount \/ HostUnmount \/ USBUpdateWire
    \/ OnConnect \/ ClientWritesKeys \/ ProcessCommand
SpecWire == Init /\ [][NextWire]_vars

\* A USB pass that empties a queue holding acknowledged messages.
QueueDrained == hidQueue # <<>> /\ hidQueue' = <<>>

\* C35: every acknowledged HID command (a message appended to the queue) is
\* executed on the wired interface exactly once and in the order of the queue:
\* the pass that takes the messages out of the queue executes all of them.
C35_AcknowledgedIsExecuted ==
    [][ QueueDrained => wired' = hidQueue ]_vars

\* With the link connected at the pass, the messages are executed once each in
\* queue order; the queue never holds more than HID_QUEUE_SIZE messages.
C35_ExecutedInOrderWhileConnected ==
    [][ (QueueDrained /\ usbConnected') => wired' = hidQueue ]_vars

\* Nothing is executed that was not queued, and nothing twice: a pass executes
\* the queue it received, or nothing.
C35_NothingExecutedTwice ==
    [][ wired' # wired => (wired' = hidQueue \/ wired' = <<>>) ]_vars

(***************************************************************************)
(* The single response slot, written field by field                        *)
(***************************************************************************)
\* `vendorResponse = {}`, the first statement of sendVendorResponse.
stageClear_Keep(slot) == slot
stageClear(slot) == ZeroPacket

\* GripDeckVendorHID::_onSetFeature and _onGetFeature are callbacks the USB
\* device stack runs from its one task, one control transfer after the other;
\* handleVendorReport has no other caller.  usbd is that task's position.
\* _onSetFeature up to the first statement of sendVendorResponse.
StageClear ==
    /\ usbd.at = "idle"
    /\ \E f \in Frames :
          LET staged == onSetFeature(f.report_id, f.packet, f.len)
          IN /\ staged # <<>>
             /\ usbd' = [at |-> "header", target |-> staged[1]]
    /\ vendorResponse' = stageClear(vendorResponse)
    /\ UNCHANGED <<now, powerVars, sleepVars, buttonVars, bleVars,
                   vendorResponseReady, hostOps, notified, gauge, snapshot,
                   boot, telemetry, cell, unsteady, blockedAt, enabledAt,
                   wired, retrieved, statusVars, hostVars>>

\* magic, protocol_version, command and sequence are assigned.
StageHeader ==
    /\ usbd.at = "header"
    /\ vendorResponse' = [vendorResponse EXCEPT
                             !.magic = usbd.target.magic,
                             !.protocol_version = usbd.target.protocol_version,
                             !.command = usbd.target.command,
                             !.sequence = usbd.target.sequence]
    /\ usbd' = [usbd EXCEPT !.at = "payload"]
    /\ UNCHANGED <<now, powerVars, sleepVars, buttonVars, bleVars,
                   vendorResponseReady, hostOps, notified, gauge, snapshot,
                   boot, telemetry, cell, unsteady, blockedAt, enabledAt,
                   wired, retrieved, statusVars, hostVars>>

\* memcpy of the payload, skipped for a response without one (PONG).
StagePayload ==
    /\ usbd.at = "payload"
    /\ vendorResponse' = IF usbd.target.payload # ZeroPayload
                          THEN [vendorResponse EXCEPT !.payload = usbd.target.payload]
                          ELSE vendorResponse
    /\ usbd' = [usbd EXCEPT !.at = "ready"]
    /\ UNCHANGED <<now, powerVars, sleepVars, buttonVars, bleVars,
                   vendorResponseReady, hostOps, notified, gauge, snapshot,
                   boot, telemetry, cell, unsteady, blockedAt, enabledAt,
                   wired, retrieved, statusVars, hostVars>>

\* vendorResponseReady = true, and the callback returns.
StageReady ==
    /\ usbd.at = "ready"
    /\ vendorResponseReady' = TRUE
    /\ usbd' = [usbd EXCEPT !.at = "idle"]
    /\ UNCHANGED <<now, powerVars, sleepVars, buttonVars, bleVars,
                   vendorResponse, hostOps, notified, gauge, snapshot,
                   boot, telemetry, cell, unsteady, blockedAt, enabledAt,
                   wired, retrieved, statusVars, hostVars>>

\* _onGetFeature with getVendorResponse, run by the same task between two
\* callbacks.
Retrieve ==
    /\ usbd.at = "idle"
    /\ retrieved' = getVendorResponse.packet
    /\ vendorResponseReady' = getVendorResponse.ready
    /\ UNCHANGED <<now, powerVars, sleepVars, buttonVars, bleVars,
                   vendorResponse, hostOps, notified, gauge, snapshot,
                   boot, telemetry, cell, unsteady, blockedAt, enabledAt,
                   wired, usbd, statusVars, hostVars>>

NextStage ==
    \/ StageClear \/ StageHeader \/ StagePayload \/ StageReady \/ Retrieve
SpecStage == Init /\ [][NextStage]_vars

\* The responses a complete sendVendorResponse leaves in the slot.
CompleteResponses ==
    {onSetFeature(f.report_id, f.packet, f.len)[1] :
        f \in {g \in Frames : onSetFeature(g.report_id, g.packet, g.len) # <<>>}}

C36_ReadySlotIsComplete ==
    (usbd.at = "idle" /\ vendorResponseReady) => vendorResponse \in CompleteResponses

(***************************************************************************)
(* The status aggregator and the power task's low-power notification       *)
(***************************************************************************)
\* StatusManager::setStatus: xQueueSend(statusQueue, &msg, 0); a full queue
\* drops the message.
setStatus(st, newStatus, duration) ==
    IF Len(st.statusQueue) >= STATUS_QUEUE_SIZE THEN st
    ELSE [st EXCEPT !.statusQueue =
              Append(@, [status |-> newStatus, duration |-> duration])]

\* A setLowPowerMode that posts no status.
setLowPowerMode_Silent(st, enabled, taken) ==
    IF ~taken \/ st.isLowPowerMode = enabled THEN st
    ELSE [st EXCEPT !.isLowPowerMode = enabled]

\* StatusManager::setLowPowerMode: nothing happens when statusMutex is not
\* obtained within 100 ms.
setLowPowerMode(st, enabled, taken) ==
    IF ~taken \/ st.isLowPowerMode = enabled THEN st
    ELSE setStatus([st EXCEPT !.isLowPowerMode = enabled],
                   IF enabled THEN "STATUS_LOW_POWER_MODE" ELSE "STATUS_IDLE", 0)

\* PowerManager::isPowerSavingMode on the snapshot data: false when the lock
\* is not obtained within 100 ms.
isPowerSavingMode(data, lockTaken) == lockTaken /\ data.powerSavingMode

\* PowerManager::update with the SBC line low (the consistency check finds
\* nothing to switch off): the sample is published, then the low-power flag of
\* the status manager is notified when isPowerSavingMode() differs from
\* previousPowerSavingMode.  The status task has run before more than
\* MaxPosted statuses are waiting.
PowerUpdateStatusWith(lockTaken, readTaken, statusTaken) ==
    /\ Running /\ pc["power"] = "idle" /\ ~pinSBC
    /\ Len(status.statusQueue) < MaxPosted
    /\ \E sample \in Samples :
         powerData' = setPowerData(sample[1], sample[2], lockTaken)
    /\ LET currentPowerSavingMode == isPowerSavingMode(powerData', readTaken)
       IN IF currentPowerSavingMode # previousPowerSavingMode
          THEN /\ status' = setLowPowerMode(status, currentPowerSavingMode, statusTaken)
               /\ previousPowerSavingMode' = currentPowerSavingMode
          ELSE UNCHANGED statusVars
    /\ UNCHANGED <<now, pinSBC, mounted, usbConnected, initialized, hidQueue,
                   pc, startTime, call, lastReturn, sleepVars, buttonVars,
                   bleVars, vendorVars, notified, gauge, snapshot, boot,
                   telemetry, cell, unsteady, blockedAt, enabledAt, wired,
                   usbd, retrieved, hostVars>>

PowerUpdateStatus ==
    \E lockTaken, readTaken, statusTaken \in BOOLEAN :
        PowerUpdateStatusWith(lockTaken, readTaken, statusTaken)

\* StatusManager::isTemporaryStatus
isTemporaryStatus(s) ==
    s \in {"STATUS_BLE_CONNECTED", "STATUS_BLE_DISCONNECTED",
           "STATUS_HID_CONNECTED", "STATUS_HID_DISCONNECTED",
           "STATUS_BLE_CMD_ERROR"}

\* StatusManager::processStatusQueue with handleStatusChange: every queued
\* status becomes the current one in turn, the last one stays.
processStatusQueue(st) ==
    IF st.statusQueue = <<>> THEN st
    ELSE [st EXCEPT !.currentStatus = st.statusQueue[Len(st.statusQueue)].status,
                    !.patternStartTime = now,
                    !.statusQueue = <<>>]

\* StatusManager::checkConnectionStates: a change of the BLE link, of the
\* wired link or of the charger posts a status.
checkConnectionStates(st, charging) ==
    LET ble == IF deviceConnected # st.prevBLEConnected
               THEN setStatus(st, IF deviceConnected THEN "STATUS_BLE_CONNECTED"
                                  ELSE "STATUS_BLE_DISCONNECTED", LED_BLINK_DURATION)
               ELSE st
        usb == IF usbConnected # st.prevUSBConnected
               THEN setStatus(ble, IF usbConnected THEN "STATUS_HID_CONNECTED"
                                   ELSE "STATUS_HID_DISCONNECTED", LED_BLINK_DURATION)
               ELSE ble
        chg == IF charging # st.prevCharging
               THEN setStatus(usb, IF charging THEN "STATUS_CHARGING"
                                   ELSE "STATUS_IDLE", 0)
               ELSE usb
    IN [chg EXCEPT !.prevBLEConnected = deviceConnected,
                   !.prevUSBConnected = usbConnected,
                   !.prevCharging = charging]

\* An updateLEDPattern that compares with > instead of >=.
updateLEDPattern_Late(st) ==
    IF isTemporaryStatus(st.currentStatus)
       /\ ElapsedAtLeast(now, st.patternStartTime, LED_BLINK_DURATION + 1)
    THEN [st EXCEPT !.currentStatus = "STATUS_IDLE", !.patternStartTime = now]
    ELSE st

\* StatusManager::updateLEDPattern: a temporary status that has been shown for
\* LED_BLINK_DURATION goes back to idle.
updateLEDPattern(st) ==
    IF isTemporaryStatus(st.currentStatus)
       /\ ElapsedAtLeast(now, st.patternStartTime, LED_BLINK_DURATION)
    THEN [st EXCEPT !.currentStatus = "STATUS_IDLE", !.patternStartTime = now]
    ELSE st

\* StatusManager::update: skipped when statusMutex is not obtained in 10 ms.
StatusUpdateWith(taken) ==
    /\ Running
    /\ \E charging \in {getPowerData(lockTaken, garbage).charger.connected :
                            lockTaken \in BOOLEAN, garbage \in GarbageSnapshots} :
          status' = IF ~taken THEN status
                    ELSE updateLEDPattern(
                           checkConnectionStates(processStatusQueue(status),
                                                 charging))
    /\ UNCHANGED <<now, powerVars, sleepVars, buttonVars, bleVars, vendorVars,
                   notified, gauge, snapshot, boot, telemetry, cell, unsteady,
                   blockedAt, enabledAt, wired, usbd, retrieved,
                   previousPowerSavingMode, hostVars>>

StatusUpdate == \E taken \in BOOLEAN : StatusUpdateWith(taken)

NextStatus == Tick \/ PowerUpdateStatus \/ StatusUpdate
\* Both tasks keep running, and each lock is free again and again.
SpecStatus ==
    /\ Init /\ [][NextStatus]_vars
    /\ WF_vars(PowerUpdateStatusWith(TRUE, TRUE, TRUE))
    /\ WF_vars(StatusUpdateWith(TRUE))

\* C37: whenever the published powerSavingMode has a value, the low-power flag
\* of the status manager eventually has the same value (or the published mode
\* has changed again), whatever the interleaving and the lock time-outs.
C37_FlagFollowsPublishedMode ==
    \A b \in BOOLEAN :
        (powerData.powerSavingMode = b) ~>
            (status.isLowPowerMode = b \/ powerData.powerSavingMode # b)

\* Whenever the flag changes, the matching status is posted in the same call.
C37_FlagChangePostsStatus ==
    [][ status'.isLowPowerMode # status.isLowPowerMode =>
          status'.statusQueue =
              Append(status.statusQueue,
                     [status |-> IF status'.isLowPowerMode
                                 THEN "STATUS_LOW_POWER_MODE" ELSE "STATUS_IDLE",
                      duration |-> 0]) ]_vars

\* With previousPowerSavingMode in step with the flag (no notification was
\* lost), a pass that obtains its locks brings the flag to the published mode.
C37_FollowsWhenLocksAreFree ==
    [][ (PowerUpdateStatusWith(TRUE, TRUE, TRUE)
           /\ previousPowerSavingMode = status.isLowPowerMode) =>
          status'.isLowPowerMode = powerData'.powerSavingMode ]_vars

(***************************************************************************)
(* The command-error status of an unknown command                          *)
(***************************************************************************)
\* The status a command posts in handleCommand before it replies; the power
\* commands post theirs after trySetSBCPower has returned.
postedStatus(st, command) ==
    IF command = "UNKNOWN"
    THEN setStatus(st, "STATUS_BLE_CMD_ERROR", LED_BLINK_DURATION)
    ELSE IF command = "SYSTEM_RESTART"
    THEN setStatus(st, "STATUS_SHUTDOWN", LED_BLINK_DURATION)
    ELSE st

\* One iteration of processCommands, with the status it posts.
ProcessCommandStatus ==
    /\ ProcessCommandPass
    /\ status' = postedStatus(status, parseCommand(Head(commandQueue).text).command)
    /\ UNCHANGED <<enabledAt, wired, usbd, retrieved, previousPowerSavingMode, hostVars>>

\* A client that sends a known and an unknown command, while fewer than
\* MaxPending frames and fewer than MaxPosted statuses are waiting.
ClientWritesUnknown ==
    /\ Len(commandQueue) < MaxPending
    /\ Len(status.statusQueue) < MaxPosted
    /\ \E f \in {Frame(<<"HELP">>, 4), Frame(<<"NO_SUCH_COMMAND">>, 15)} : OnWrite(f)

\* The clock in steps of BlinkMs.
TickBlink ==
    /\ Running
    /\ now + BlinkMs <= BlinkSteps * BlinkMs
    /\ now' = now + BlinkMs
    /\ UNCHANGED <<powerVars, sleepVars, buttonVars, bleVars, vendorVars,
                   calcVars>>

NextBlink ==
    \/ TickBlink \/ OnConnect \/ OnDisconnect \/ ClientWritesUnknown
    \/ ProcessCommandStatus \/ StatusUpdate
SpecBlink == Init /\ [][NextBlink]_vars

CmdError == "STATUS_BLE_CMD_ERROR"
UnknownHandled ==
    /\ ProcessCommandPass
    /\ parseCommand(Head(commandQueue).text).command = "UNKNOWN"

\* C38: the reply to an unknown command posts the command-error status, the
\* status task makes it the current status when it is the last one posted,
\* and with no other status posted the indicator leaves it only for idle and
\* only when LED_BLINK_DURATION has elapsed since it was entered, which it does
\* on the first pass of the status task at or after that time.
C38_ErrorShownForBlinkDuration ==
    [][ /\ UnknownHandled =>
              /\ lastHandled'.token = "unknown"
              /\ status'.statusQueue =
                     Append(status.statusQueue,
                            [status |-> CmdError, duration |-> LED_BLINK_DURATION])
        /\ (StatusUpdateWith(TRUE) /\ status.statusQueue # <<>>
               /\ status.statusQueue[Len(status.statusQueue)].status = CmdError) =>
              /\ status'.currentStatus = CmdError
              /\ status'.patternStartTime = now
        /\ (status.currentStatus = CmdError /\ status.statusQueue = <<>>
               /\ status'.currentStatus # CmdError) =>
              /\ status'.currentStatus = "STATUS_IDLE"
              /\ now - status.patternStartTime >= LED_BLINK_DURATION
        /\ (StatusUpdateWith(TRUE) /\ status.currentStatus = CmdError
               /\ status.statusQueue = <<>>
               /\ now - status.patternStartTime >= LED_BLINK_DURATION) =>
              status'.currentStatus = "STATUS_IDLE" ]_vars

\* The error status has been displayed for exactly LED_BLINK_DURATION with
\* nothing else posted, and the status task is about to run; and the state
\* after it has returned to idle.
C38_Witness_ErrorDueToExpire ==
    /\ status.currentStatus = CmdError
    /\ status.statusQueue = <<>>
    /\ lastHandled.token = "unknown"
    /\ now - status.patternStartTime = LED_BLINK_DURATION

\* While the error status is younger than LED_BLINK_DURATION and nothing is
\* queued, a pass of the status task leaves it displayed.
C38_ErrorStaysBeforeExpiry ==
    [][ (StatusUpdate /\ status.currentStatus = CmdError
           /\ status.statusQueue = <<>>
           /\ now - status.patternStartTime < LED_BLINK_DURATION) =>
          status'.currentStatus = CmdError ]_vars

(***************************************************************************)
(* The STATUS payload on the wire and the host driver's decoding of it     *)
(***************************************************************************)
\* Little-endian bytes of an unsigned 16-bit and 32-bit value, and of a signed
\* 16-bit value in two's complement, as the packed structure stores them.
LE16(v) == <<v % 256, (v \div 256) % 256>>
LE16S(v) == LE16((v + 65536) % 65536)
LE32(v) == <<v % 256, (v \div 256) % 256, (v \div 65536) % 256, (v \div 16777216) % 256>>

\* status_payload_t, packed: the bytes of the structure buildStatusPayload
\* fills, in the order of its members.
status_payload_t(p) ==
    LE16(p.battery_voltage_mv) \o LE16S(p.battery_current_ma)
      \o LE32(p.to_fully_discharge_s)
      \o LE16(p.charger_voltage_mv) \o LE16S(p.charger_current_ma)
      \o LE32(p.to_fully_charge_s)
      \o LE16(p.charger_power_mw) \o <<p.charger_connected>>
      \o <<p.battery_percentage>> \o LE32(p.uptime_seconds)

\* The feature report the driver receives: the report id, then vendor_packet_t
\* (magic, version, command, sequence) and its payload.
statusReport(sequence, p) ==
    <<VENDOR_REPORT_ID>> \o LE16(PROTOCOL_MAGIC)
      \o <<PROTOCOL_VERSION, RESP_STATUS>> \o sequence \o status_payload_t(p)

\* le16_to_cpu(*(u16 *)(buf + at)), the same as s16, le32_to_cpu(*(u32 *)...)
\* and *(u8 *)(buf + at); buf is indexed from 0.
u16At(buf, at) == buf[at + 1] + 256 * buf[at + 2]
s16At(buf, at) == IF u16At(buf, at) >= 32768 THEN u16At(buf, at) - 65536 ELSE u16At(buf, at)
u32At(buf, at) == u16At(buf, at) + 65536 * u16At(buf, at + 2)
u8At(buf, at) == buf[at + 1]

\* gripdeck_update_work: the fields taken out of the report (sent is filled
\* in by the step that knows what was encoded).
gripdeck_update_work(buf) ==
    [updated |-> TRUE,
     batt_mv |-> u16At(buf, 9), batt_ma |-> s16At(buf, 11),
     to_empty_s |-> u32At(buf, 13),
     charg_mv |-> u16At(buf, 17), charg_ma |-> s16At(buf, 19),
     to_full_s |-> u32At(buf, 21),
     capacity |-> u8At(buf, 25),
     sent |-> <<>>]

\* The status payloads the firmware encodes.
StatusPayloads ==
    [battery_voltage_mv : {0, 3700, 4200}, battery_current_ma : {-500, 0, 1200},
     to_fully_discharge_s : {0, 70000}, charger_voltage_mv : {5000},
     charger_current_ma : {0}, to_fully_charge_s : {0, 3600},
     charger_power_mw : {0, 5000}, charger_connected : {0, 1},
     battery_percentage : {0, 50, 100}, uptime_seconds : {60}]

\* The driver's periodic work: GET_STATUS is sent, the staged response is
\* fetched and decoded.
DriverUpdate ==
    /\ Running
    /\ \E p \in StatusPayloads :
          driver' = [gripdeck_update_work(statusReport(<<1, 0, 0, 0>>, p))
                        EXCEPT !.sent = p]
    /\ UNCHANGED <<now, powerVars, sleepVars, buttonVars, bleVars, vendorVars,
                   notified, gauge, snapshot, boot, telemetry, cell, unsteady,
                   blockedAt, enabledAt, wired, usbd, retrieved, statusVars,
                   parse>>

NextDriver == DriverUpdate
SpecDriver == Init /\ [][NextDriver]_vars

\* C39: the driver's capacity is the encoded battery percentage, and its
\* voltage, current and times to empty and to full are the encoded fields.
C39_DriverDecodesEncodedFields ==
    driver.updated =>
        /\ driver.capacity = driver.sent.battery_percentage
        /\ driver.batt_mv = driver.sent.battery_voltage_mv
        /\ driver.batt_ma = driver.sent.battery_current_ma
        /\ driver.to_empty_s = driver.sent.to_fully_discharge_s
        /\ driver.to_full_s = driver.sent.to_fully_charge_s

\* Voltage, current and the two times are decoded where they were encoded.
C39_VoltageCurrentTimesMatch ==
    driver.updated =>
        /\ driver.batt_mv = driver.sent.battery_voltage_mv
        /\ driver.batt_ma = driver.sent.battery_current_ma
        /\ driver.to_empty_s = driver.sent.to_fully_discharge_s
        /\ driver.charg_mv = driver.sent.charger_voltage_mv
        /\ driver.charg_ma = driver.sent.charger_current_ma
        /\ driver.to_full_s = driver.sent.to_fully_charge_s

\* The byte the driver takes for the capacity is the low byte of the charger
\* power; the percentage lies three bytes further.
C39_CapacityIsLowByteOfChargerPower ==
    driver.updated =>
        /\ driver.capacity = driver.sent.charger_power_mw % 256
        /\ u8At(statusReport(<<1, 0, 0, 0>>, driver.sent), 28)
              = driver.sent.battery_percentage

(***************************************************************************)
(* Text frames written character by character                              *)
(***************************************************************************)
\* n copies of the character c.
Run(c, n) == [i \in 1..n |-> c]

RECURSIVE join(_)
join(fields) ==
    IF fields = <<>> THEN <<>>
    ELSE IF Len(fields) = 1 THEN fields[1]
    ELSE fields[1] \o <<BLE_CMD_DATA_SEPARATOR>> \o join(Tail(fields))

\* keyword:field|field|... followed by trailing line ends.
frameText(parts, ends) ==
    parts[1]
      \o (IF Len(parts) > 1 THEN <<BLE_CMD_PART_SEPARATOR>> \o join(Tail(parts)) ELSE <<>>)
      \o Run("\n", ends)

\* Frames with a keyword of 1 to 40 characters and up to MaxFields data fields
\* of one length each, 1 to 50 characters, and the frames the parser treats
\* specially: separators only, blanks only, empty fields.
KeywordLengths == {1, 31, 32, 40}
FieldLengths == {1, 2, 31, 32, 50}
RegularParts ==
    {<<Run("k", k)>> \o [i \in 1..n |-> Run("d", m)] :
        k \in KeywordLengths, n \in 0..MaxFields, m \in FieldLengths}
SpecialTexts ==
    {<<":">>, <<" ">>, <<":", ":">>, <<"k", ":">>, <<":", "k">>,
     <<"k", ":", "|">>, <<"k", ":", "|", "d">>, <<"k", ":", "d", "|", "|", "d">>,
     <<"k", ":", "d", ":", "d">>, Run("k", RAW_DATA_SIZE - 1),
     Run("k", RAW_DATA_SIZE), <<>>}

\* CharacteristicCallbacks::onWrite and, for an accepted frame, parseCommand
\* up to parseDataComponents.  rows are the entries of parsedData that were
\* written: all are cleared first, then entry dataCount is written for each
\* field that is stored.
WriteAndParse(text, parts) ==
    LET accepted == Len(text) > 0 /\ Len(text) < RAW_DATA_SIZE
        components == parseDataComponents(trimTrailing(text))
    IN /\ Running
       /\ parse' = IF ~accepted
                   THEN [NoParse EXCEPT !.written = TRUE, !.length = Len(text)]
                   ELSE [written |-> TRUE, parsed |-> TRUE, length |-> Len(text),
                         parts |-> parts,
                         parsedData |-> components.parsedData,
                         dataCount |-> components.dataCount,
                         rows |-> 0..(PARSED_DATA_COUNT - 1)
                                    \cup 0..(components.dataCount - 1)]
       /\ UNCHANGED <<now, powerVars, sleepVars, buttonVars, bleVars, vendorVars,
                      notified, gauge, snapshot, boot, telemetry, cell, unsteady,
                      blockedAt, enabledAt, wired, usbd, retrieved, statusVars,
                      driver>>

ClientWritesRegular ==
    \E parts \in RegularParts, ends \in {0, 2} :
        WriteAndParse(frameText(parts, ends), parts)
ClientWritesSpecial == \E text \in SpecialTexts : WriteAndParse(text, <<>>)

NextParse == ClientWritesRegular \/ ClientWritesSpecial
SpecParse == Init /\ [][NextParse]_vars

\* C40: a frame of 1 to 127 bytes is parsed into 1 to 8 fields, each of at
\* most 31 characters (the 32nd byte of its entry holds the terminator), only
\* entries 0..7 of parsedData are written, and a frame with more or longer
\* fields has its first 8 fields stored, each cut to its first 31 characters.
C40_ParsedFieldsStayInBounds ==
    (parse.written /\ parse.length \in 1..(RAW_DATA_SIZE - 1)) =>
        /\ parse.parsed
        /\ parse.dataCount \in 1..PARSED_DATA_COUNT
        /\ \A i \in 1..PARSED_DATA_COUNT :
               Len(parse.parsedData[i]) <= PARSED_DATA_SIZE - 1
        /\ parse.rows \subseteq 0..(PARSED_DATA_COUNT - 1)
        /\ parse.parts # <<>> =>
               /\ parse.dataCount =
                      IF Len(parse.parts) > PARSED_DATA_COUNT
                      THEN PARSED_DATA_COUNT ELSE Len(parse.parts)
               /\ \A i \in 1..parse.dataCount :
                      parse.parsedData[i] =
                          SubSeq(parse.parts[i], 1,
                                 IF Len(parse.parts[i]) > PARSED_DATA_SIZE - 1
                                 THEN PARSED_DATA_SIZE - 1 ELSE Len(parse.parts[i]))

\* A frame with a keyword longer than 31 characters and more than 7 data
\* fields was parsed.
C40_Witness_SurplusAndOverlong ==
    /\ parse.parsed
    /\ Len(parse.parts) > PARSED_DATA_COUNT
    /\ Len(parse.parts[1]) > PARSED_DATA_SIZE - 1
    /\ parse.dataCount = PARSED_DATA_COUNT
    /\ Len(parse.parsedData[1]) = PARSED_DATA_SIZE - 1

\* Frames of 0 or of 128 and more bytes are not parsed at all.
C40_OtherLengthsIgnored ==
    (parse.written /\ parse.length \notin 1..(RAW_DATA_SIZE - 1)) => ~parse.parsed

====
